---- MODULE Spec2Model ----
(***************************************************************************)
(* Team-assistant bot (src/lab1/sources/bot.py): the five conversation     *)
(* handlers registered in main(), their step handlers, and the Database    *)
(* operations they call.                                                   *)
(*                                                                         *)
(* A text is a finite sequence of Unicode code points (a Python str).      *)
(* An update is either a command ("/name") or a plain text message.        *)
(***************************************************************************)
EXTENDS Integers, Sequences, FiniteSets, TLC

\* ------------------------------------------------------------------------
\* Bounds of the model
\* ------------------------------------------------------------------------
\* updates processed in one run of the dialog and date specifications
MaxUpdates == 5
\* updates processed in one run of the specifications of the whole bot
MaxStoredUpdates == 4
\* updates processed in one run of the Q&A parsing specification
MaxParseUpdates == 2
\* add_company_info calls in one run of the Store specification
MaxCalls == 3
\* calls of send_daily_digest in one run of a specification
MaxRuns == 2
\* rows of a table in one run of the digest and events specifications
MaxRows == 2

\* Python None where a str, a datetime or a call is expected (a missing
\* user_data key, no row found); texts are sequences of code points >= 0
NONE == <<-1>>

\* no handler, no conversation, no user, no command, no reply
NoName == "none"

\* ------------------------------------------------------------------------
\* Characters and texts
\* ------------------------------------------------------------------------
\* str.isspace() and the regex class \s (the same code points for str patterns)
IsSpace(c) ==
    c \in ((9..13) \cup (28..32) \cup {133, 160, 5760} \cup (8192..8202)
           \cup {8232, 8233, 8239, 8287, 12288})

\* The decimal digits (Unicode 14, category Nd) that the regex class \d
\* matches and int() reads: the digits come in runs of ten, 0 to 9, and the
\* set holds the code point of the zero of each run
DigitZeros ==
    { 48, 1632, 1776, 1984, 2406, 2534, 2662, 2790, 2918, 3046, 3174, 3302,
      3430, 3558, 3664, 3792, 3872, 4160, 4240, 6112, 6160, 6470, 6608, 6784,
      6800, 6992, 7088, 7232, 7248, 42528, 43216, 43264, 43472, 43504, 43600,
      44016, 65296, 66720, 68912, 69734, 69872, 69942, 70096, 70384, 70736,
      70864, 71248, 71360, 71472, 71904, 72016, 72784, 73040, 73120, 92768,
      92864, 93008, 120782, 120792, 120802, 120812, 120822, 123200, 123632,
      125264, 130032 }

IsDigit(c) == \E z \in DigitZeros : c \in z..(z + 9)

\* int() of a decimal digit
DigitVal(c) == c - (CHOOSE z \in DigitZeros : c \in z..(z + 9))

\* The lowercase mapping of Unicode 14 as <<first, last, step, delta>>: the
\* code points first, first + step, ..., last map to themselves plus delta
LowerRanges ==
    { <<65, 90, 1, 32>>, <<192, 214, 1, 32>>, <<216, 222, 1, 32>>,
      <<256, 302, 2, 1>>, <<304, 304, 1, -199>>, <<306, 310, 2, 1>>,
      <<313, 327, 2, 1>>, <<330, 374, 2, 1>>, <<376, 376, 1, -121>>,
      <<377, 381, 2, 1>>, <<385, 385, 1, 210>>, <<386, 388, 2, 1>>,
      <<390, 390, 1, 206>>, <<391, 391, 1, 1>>, <<393, 394, 1, 205>>,
      <<395, 395, 1, 1>>, <<398, 398, 1, 79>>, <<399, 399, 1, 202>>,
      <<400, 400, 1, 203>>, <<401, 401, 1, 1>>, <<403, 403, 1, 205>>,
      <<404, 404, 1, 207>>, <<406, 406, 1, 211>>, <<407, 407, 1, 209>>,
      <<408, 408, 1, 1>>, <<412, 412, 1, 211>>, <<413, 413, 1, 213>>,
      <<415, 415, 1, 214>>, <<416, 420, 2, 1>>, <<422, 422, 1, 218>>,
      <<423, 423, 1, 1>>, <<425, 425, 1, 218>>, <<428, 428, 1, 1>>,
      <<430, 430, 1, 218>>, <<431, 431, 1, 1>>, <<433, 434, 1, 217>>,
      <<435, 437, 2, 1>>, <<439, 439, 1, 219>>, <<440, 440, 1, 1>>,
      <<444, 444, 1, 1>>, <<452, 452, 1, 2>>, <<453, 453, 1, 1>>,
      <<455, 455, 1, 2>>, <<456, 456, 1, 1>>, <<458, 458, 1, 2>>,
      <<459, 475, 2, 1>>, <<478, 494, 2, 1>>, <<497, 497, 1, 2>>,
      <<498, 500, 2, 1>>, <<502, 502, 1, -97>>, <<503, 503, 1, -56>>,
      <<504, 542, 2, 1>>, <<544, 544, 1, -130>>, <<546, 562, 2, 1>>,
      <<570, 570, 1, 10795>>, <<571, 571, 1, 1>>, <<573, 573, 1, -163>>,
      <<574, 574, 1, 10792>>, <<577, 577, 1, 1>>, <<579, 579, 1, -195>>,
      <<580, 580, 1, 69>>, <<581, 581, 1, 71>>, <<582, 590, 2, 1>>,
      <<880, 882, 2, 1>>, <<886, 886, 1, 1>>, <<895, 895, 1, 116>>,
      <<902, 902, 1, 38>>, <<904, 906, 1, 37>>, <<908, 908, 1, 64>>,
      <<910, 911, 1, 63>>, <<913, 929, 1, 32>>, <<931, 939, 1, 32>>,
      <<975, 975, 1, 8>>, <<984, 1006, 2, 1>>, <<1012, 1012, 1, -60>>,
      <<1015, 1015, 1, 1>>, <<1017, 1017, 1, -7>>, <<1018, 1018, 1, 1>>,
      <<1021, 1023, 1, -130>>, <<1024, 1039, 1, 80>>, <<1040, 1071, 1, 32>>,
      <<1120, 1152, 2, 1>>, <<1162, 1214, 2, 1>>, <<1216, 1216, 1, 15>>,
      <<1217, 1229, 2, 1>>, <<1232, 1326, 2, 1>>, <<1329, 1366, 1, 48>>,
      <<4256, 4293, 1, 7264>>, <<4295, 4295, 1, 7264>>,
      <<4301, 4301, 1, 7264>>, <<5024, 5103, 1, 38864>>,
      <<5104, 5109, 1, 8>>, <<7312, 7354, 1, -3008>>,
      <<7357, 7359, 1, -3008>>, <<7680, 7828, 2, 1>>,
      <<7838, 7838, 1, -7615>>, <<7840, 7934, 2, 1>>, <<7944, 7951, 1, -8>>,
      <<7960, 7965, 1, -8>>, <<7976, 7983, 1, -8>>, <<7992, 7999, 1, -8>>,
      <<8008, 8013, 1, -8>>, <<8025, 8031, 2, -8>>, <<8040, 8047, 1, -8>>,
      <<8072, 8079, 1, -8>>, <<8088, 8095, 1, -8>>, <<8104, 8111, 1, -8>>,
      <<8120, 8121, 1, -8>>, <<8122, 8123, 1, -74>>, <<8124, 8124, 1, -9>>,
      <<8136, 8139, 1, -86>>, <<8140, 8140, 1, -9>>, <<8152, 8153, 1, -8>>,
      <<8154, 8155, 1, -100>>, <<8168, 8169, 1, -8>>,
      <<8170, 8171, 1, -112>>, <<8172, 8172, 1, -7>>,
      <<8184, 8185, 1, -128>>, <<8186, 8187, 1, -126>>,
      <<8188, 8188, 1, -9>>, <<8486, 8486, 1, -7517>>,
      <<8490, 8490, 1, -8383>>, <<8491, 8491, 1, -8262>>,
      <<8498, 8498, 1, 28>>, <<8544, 8559, 1, 16>>, <<8579, 8579, 1, 1>>,
      <<9398, 9423, 1, 26>>, <<11264, 11311, 1, 48>>, <<11360, 11360, 1, 1>>,
      <<11362, 11362, 1, -10743>>, <<11363, 11363, 1, -3814>>,
      <<11364, 11364, 1, -10727>>, <<11367, 11371, 2, 1>>,
      <<11373, 11373, 1, -10780>>, <<11374, 11374, 1, -10749>>,
      <<11375, 11375, 1, -10783>>, <<11376, 11376, 1, -10782>>,
      <<11378, 11378, 1, 1>>, <<11381, 11381, 1, 1>>,
      <<11390, 11391, 1, -10815>>, <<11392, 11490, 2, 1>>,
      <<11499, 11501, 2, 1>>, <<11506, 11506, 1, 1>>, <<42560, 42604, 2, 1>>,
      <<42624, 42650, 2, 1>>, <<42786, 42798, 2, 1>>, <<42802, 42862, 2, 1>>,
      <<42873, 42875, 2, 1>>, <<42877, 42877, 1, -35332>>,
      <<42878, 42886, 2, 1>>, <<42891, 42891, 1, 1>>,
      <<42893, 42893, 1, -42280>>, <<42896, 42898, 2, 1>>,
      <<42902, 42920, 2, 1>>, <<42922, 42922, 1, -42308>>,
      <<42923, 42923, 1, -42319>>, <<42924, 42924, 1, -42315>>,
      <<42925, 42925, 1, -42305>>, <<42926, 42926, 1, -42308>>,
      <<42928, 42928, 1, -42258>>, <<42929, 42929, 1, -42282>>,
      <<42930, 42930, 1, -42261>>, <<42931, 42931, 1, 928>>,
      <<42932, 42946, 2, 1>>, <<42948, 42948, 1, -48>>,
      <<42949, 42949, 1, -42307>>, <<42950, 42950, 1, -35384>>,
      <<42951, 42953, 2, 1>>, <<42960, 42960, 1, 1>>, <<42966, 42968, 2, 1>>,
      <<42997, 42997, 1, 1>>, <<65313, 65338, 1, 32>>,
      <<66560, 66599, 1, 40>>, <<66736, 66771, 1, 40>>,
      <<66928, 66964, 2, 39>>, <<66929, 66937, 2, 39>>,
      <<66941, 66953, 2, 39>>, <<66957, 66961, 2, 39>>,
      <<66965, 66965, 1, 39>>, <<68736, 68786, 1, 64>>,
      <<71840, 71871, 1, 32>>, <<93760, 93791, 1, 32>>,
      <<125184, 125217, 1, 34>> }

\* the mapping that a table of <<first, last, step, delta>> ranges stands for
RangeMap(ranges) ==
    [c \in UNION {{d \in r[1]..r[2] : (d - r[1]) % r[3] = 0} : r \in ranges}
        |-> c + (CHOOSE r \in ranges :
                    c \in r[1]..r[2] /\ (c - r[1]) % r[3] = 0)[4]]

LowerMap == RangeMap(LowerRanges)

\* c mapped by m, or c itself where m has no entry
MapOr(m, c) == IF c \in DOMAIN m THEN m[c] ELSE c

\* the one-to-one lowercase of a code point, which re.IGNORECASE compares
tolower(c) == MapOr(LowerMap, c)

\* str.lower() of the one-character text chr(c): the one-to-one lowercase,
\* except U+0130, which becomes "i" and U+0307
lower_char(c) == IF c = 304 THEN <<105, 775>> ELSE <<tolower(c)>>

\* Code points with the property Case_Ignorable, as <<first, last>>
CaseIgnorableRanges ==
    { <<39, 39>>, <<46, 46>>, <<58, 58>>, <<94, 94>>, <<96, 96>>,
      <<168, 168>>, <<173, 173>>, <<175, 175>>, <<180, 180>>, <<183, 184>>,
      <<688, 879>>, <<884, 885>>, <<890, 890>>, <<900, 901>>, <<903, 903>>,
      <<1155, 1161>>, <<1369, 1369>>, <<1375, 1375>>, <<1425, 1469>>,
      <<1471, 1471>>, <<1473, 1474>>, <<1476, 1477>>, <<1479, 1479>>,
      <<1524, 1524>>, <<1536, 1541>>, <<1552, 1562>>, <<1564, 1564>>,
      <<1600, 1600>>, <<1611, 1631>>, <<1648, 1648>>, <<1750, 1757>>,
      <<1759, 1768>>, <<1770, 1773>>, <<1807, 1807>>, <<1809, 1809>>,
      <<1840, 1866>>, <<1958, 1968>>, <<2027, 2037>>, <<2042, 2042>>,
      <<2045, 2045>>, <<2070, 2093>>, <<2137, 2139>>, <<2184, 2184>>,
      <<2192, 2193>>, <<2200, 2207>>, <<2249, 2306>>, <<2362, 2362>>,
      <<2364, 2364>>, <<2369, 2376>>, <<2381, 2381>>, <<2385, 2391>>,
      <<2402, 2403>>, <<2417, 2417>>, <<2433, 2433>>, <<2492, 2492>>,
      <<2497, 2500>>, <<2509, 2509>>, <<2530, 2531>>, <<2558, 2558>>,
      <<2561, 2562>>, <<2620, 2620>>, <<2625, 2626>>, <<2631, 2632>>,
      <<2635, 2637>>, <<2641, 2641>>, <<2672, 2673>>, <<2677, 2677>>,
      <<2689, 2690>>, <<2748, 2748>>, <<2753, 2757>>, <<2759, 2760>>,
      <<2765, 2765>>, <<2786, 2787>>, <<2810, 2815>>, <<2817, 2817>>,
      <<2876, 2876>>, <<2879, 2879>>, <<2881, 2884>>, <<2893, 2893>>,
      <<2901, 2902>>, <<2914, 2915>>, <<2946, 2946>>, <<3008, 3008>>,
      <<3021, 3021>>, <<3072, 3072>>, <<3076, 3076>>, <<3132, 3132>>,
      <<3134, 3136>>, <<3142, 3144>>, <<3146, 3149>>, <<3157, 3158>>,
      <<3170, 3171>>, <<3201, 3201>>, <<3260, 3260>>, <<3263, 3263>>,
      <<3270, 3270>>, <<3276, 3277>>, <<3298, 3299>>, <<3328, 3329>>,
      <<3387, 3388>>, <<3393, 3396>>, <<3405, 3405>>, <<3426, 3427>>,
      <<3457, 3457>>, <<3530, 3530>>, <<3538, 3540>>, <<3542, 3542>>,
      <<3633, 3633>>, <<3636, 3642>>, <<3654, 3662>>, <<3761, 3761>>,
      <<3764, 3772>>, <<3782, 3782>>, <<3784, 3789>>, <<3864, 3865>>,
      <<3893, 3893>>, <<3895, 3895>>, <<3897, 3897>>, <<3953, 3966>>,
      <<3968, 3972>>, <<3974, 3975>>, <<3981, 3991>>, <<3993, 4028>>,
      <<4038, 4038>>, <<4141, 4144>>, <<4146, 4151>>, <<4153, 4154>>,
      <<4157, 4158>>, <<4184, 4185>>, <<4190, 4192>>, <<4209, 4212>>,
      <<4226, 4226>>, <<4229, 4230>>, <<4237, 4237>>, <<4253, 4253>>,
      <<4348, 4348>>, <<4957, 4959>>, <<5906, 5908>>, <<5938, 5939>>,
      <<5970, 5971>>, <<6002, 6003>>, <<6068, 6069>>, <<6071, 6077>>,
      <<6086, 6086>>, <<6089, 6099>>, <<6103, 6103>>, <<6109, 6109>>,
      <<6155, 6159>>, <<6211, 6211>>, <<6277, 6278>>, <<6313, 6313>>,
      <<6432, 6434>>, <<6439, 6440>>, <<6450, 6450>>, <<6457, 6459>>,
      <<6679, 6680>>, <<6683, 6683>>, <<6742, 6742>>, <<6744, 6750>>,
      <<6752, 6752>>, <<6754, 6754>>, <<6757, 6764>>, <<6771, 6780>>,
      <<6783, 6783>>, <<6823, 6823>>, <<6832, 6862>>, <<6912, 6915>>,
      <<6964, 6964>>, <<6966, 6970>>, <<6972, 6972>>, <<6978, 6978>>,
      <<7019, 7027>>, <<7040, 7041>>, <<7074, 7077>>, <<7080, 7081>>,
      <<7083, 7085>>, <<7142, 7142>>, <<7144, 7145>>, <<7149, 7149>>,
      <<7151, 7153>>, <<7212, 7219>>, <<7222, 7223>>, <<7288, 7293>>,
      <<7376, 7378>>, <<7380, 7392>>, <<7394, 7400>>, <<7405, 7405>>,
      <<7412, 7412>>, <<7416, 7417>>, <<7468, 7530>>, <<7544, 7544>>,
      <<7579, 7679>>, <<8125, 8125>>, <<8127, 8129>>, <<8141, 8143>>,
      <<8157, 8159>>, <<8173, 8175>>, <<8189, 8190>>, <<8203, 8207>>,
      <<8216, 8217>>, <<8228, 8228>>, <<8231, 8231>>, <<8234, 8238>>,
      <<8288, 8292>>, <<8294, 8303>>, <<8305, 8305>>, <<8319, 8319>>,
      <<8336, 8348>>, <<8400, 8432>>, <<11388, 11389>>, <<11503, 11505>>,
      <<11631, 11631>>, <<11647, 11647>>, <<11744, 11775>>, <<11823, 11823>>,
      <<12293, 12293>>, <<12330, 12333>>, <<12337, 12341>>, <<12347, 12347>>,
      <<12441, 12446>>, <<12540, 12542>>, <<40981, 40981>>, <<42232, 42237>>,
      <<42508, 42508>>, <<42607, 42610>>, <<42612, 42621>>, <<42623, 42623>>,
      <<42652, 42655>>, <<42736, 42737>>, <<42752, 42785>>, <<42864, 42864>>,
      <<42888, 42890>>, <<42994, 42996>>, <<43000, 43001>>, <<43010, 43010>>,
      <<43014, 43014>>, <<43019, 43019>>, <<43045, 43046>>, <<43052, 43052>>,
      <<43204, 43205>>, <<43232, 43249>>, <<43263, 43263>>, <<43302, 43309>>,
      <<43335, 43345>>, <<43392, 43394>>, <<43443, 43443>>, <<43446, 43449>>,
      <<43452, 43453>>, <<43471, 43471>>, <<43493, 43494>>, <<43561, 43566>>,
      <<43569, 43570>>, <<43573, 43574>>, <<43587, 43587>>, <<43596, 43596>>,
      <<43632, 43632>>, <<43644, 43644>>, <<43696, 43696>>, <<43698, 43700>>,
      <<43703, 43704>>, <<43710, 43711>>, <<43713, 43713>>, <<43741, 43741>>,
      <<43756, 43757>>, <<43763, 43764>>, <<43766, 43766>>, <<43867, 43871>>,
      <<43881, 43883>>, <<44005, 44005>>, <<44008, 44008>>, <<44013, 44013>>,
      <<64286, 64286>>, <<64434, 64450>>, <<65024, 65039>>, <<65043, 65043>>,
      <<65056, 65071>>, <<65106, 65106>>, <<65109, 65109>>, <<65279, 65279>>,
      <<65287, 65287>>, <<65294, 65294>>, <<65306, 65306>>, <<65342, 65342>>,
      <<65344, 65344>>, <<65392, 65392>>, <<65438, 65439>>, <<65507, 65507>>,
      <<65529, 65531>>, <<66045, 66045>>, <<66272, 66272>>, <<66422, 66426>>,
      <<67456, 67461>>, <<67463, 67504>>, <<67506, 67514>>, <<68097, 68099>>,
      <<68101, 68102>>, <<68108, 68111>>, <<68152, 68154>>, <<68159, 68159>>,
      <<68325, 68326>>, <<68900, 68903>>, <<69291, 69292>>, <<69446, 69456>>,
      <<69506, 69509>>, <<69633, 69633>>, <<69688, 69702>>, <<69744, 69744>>,
      <<69747, 69748>>, <<69759, 69761>>, <<69811, 69814>>, <<69817, 69818>>,
      <<69821, 69821>>, <<69826, 69826>>, <<69837, 69837>>, <<69888, 69890>>,
      <<69927, 69931>>, <<69933, 69940>>, <<70003, 70003>>, <<70016, 70017>>,
      <<70070, 70078>>, <<70089, 70092>>, <<70095, 70095>>, <<70191, 70193>>,
      <<70196, 70196>>, <<70198, 70199>>, <<70206, 70206>>, <<70367, 70367>>,
      <<70371, 70378>>, <<70400, 70401>>, <<70459, 70460>>, <<70464, 70464>>,
      <<70502, 70508>>, <<70512, 70516>>, <<70712, 70719>>, <<70722, 70724>>,
      <<70726, 70726>>, <<70750, 70750>>, <<70835, 70840>>, <<70842, 70842>>,
      <<70847, 70848>>, <<70850, 70851>>, <<71090, 71093>>, <<71100, 71101>>,
      <<71103, 71104>>, <<71132, 71133>>, <<71219, 71226>>, <<71229, 71229>>,
      <<71231, 71232>>, <<71339, 71339>>, <<71341, 71341>>, <<71344, 71349>>,
      <<71351, 71351>>, <<71453, 71455>>, <<71458, 71461>>, <<71463, 71467>>,
      <<71727, 71735>>, <<71737, 71738>>, <<71995, 71996>>, <<71998, 71998>>,
      <<72003, 72003>>, <<72148, 72151>>, <<72154, 72155>>, <<72160, 72160>>,
      <<72193, 72202>>, <<72243, 72248>>, <<72251, 72254>>, <<72263, 72263>>,
      <<72273, 72278>>, <<72281, 72283>>, <<72330, 72342>>, <<72344, 72345>>,
      <<72752, 72758>>, <<72760, 72765>>, <<72767, 72767>>, <<72850, 72871>>,
      <<72874, 72880>>, <<72882, 72883>>, <<72885, 72886>>, <<73009, 73014>>,
      <<73018, 73018>>, <<73020, 73021>>, <<73023, 73029>>, <<73031, 73031>>,
      <<73104, 73105>>, <<73109, 73109>>, <<73111, 73111>>, <<73459, 73460>>,
      <<78896, 78904>>, <<92912, 92916>>, <<92976, 92982>>, <<92992, 92995>>,
      <<94031, 94031>>, <<94095, 94111>>, <<94176, 94177>>, <<94179, 94180>>,
      <<110576, 110579>>, <<110581, 110587>>, <<110589, 110590>>,
      <<113821, 113822>>, <<113824, 113827>>, <<118528, 118573>>,
      <<118576, 118598>>, <<119143, 119145>>, <<119155, 119170>>,
      <<119173, 119179>>, <<119210, 119213>>, <<119362, 119364>>,
      <<121344, 121398>>, <<121403, 121452>>, <<121461, 121461>>,
      <<121476, 121476>>, <<121499, 121503>>, <<121505, 121519>>,
      <<122880, 122886>>, <<122888, 122904>>, <<122907, 122913>>,
      <<122915, 122916>>, <<122918, 122922>>, <<123184, 123197>>,
      <<123566, 123566>>, <<123628, 123631>>, <<125136, 125142>>,
      <<125252, 125259>>, <<127995, 127999>>, <<917505, 917505>>,
      <<917536, 917631>>, <<917760, 917999>> }

CaseIgnorable == UNION {r[1]..r[2] : r \in CaseIgnorableRanges}

\* Code points with the property Cased, as <<first, last>>
CasedRanges ==
    { <<65, 90>>, <<97, 122>>, <<170, 170>>, <<181, 181>>, <<186, 186>>,
      <<192, 214>>, <<216, 246>>, <<248, 442>>, <<444, 447>>, <<452, 659>>,
      <<661, 696>>, <<704, 705>>, <<736, 740>>, <<837, 837>>, <<880, 883>>,
      <<886, 887>>, <<890, 893>>, <<895, 895>>, <<902, 902>>, <<904, 906>>,
      <<908, 908>>, <<910, 929>>, <<931, 1013>>, <<1015, 1153>>,
      <<1162, 1327>>, <<1329, 1366>>, <<1376, 1416>>, <<4256, 4293>>,
      <<4295, 4295>>, <<4301, 4301>>, <<4304, 4346>>, <<4349, 4351>>,
      <<5024, 5109>>, <<5112, 5117>>, <<7296, 7304>>, <<7312, 7354>>,
      <<7357, 7359>>, <<7424, 7615>>, <<7680, 7957>>, <<7960, 7965>>,
      <<7968, 8005>>, <<8008, 8013>>, <<8016, 8023>>, <<8025, 8025>>,
      <<8027, 8027>>, <<8029, 8029>>, <<8031, 8061>>, <<8064, 8116>>,
      <<8118, 8124>>, <<8126, 8126>>, <<8130, 8132>>, <<8134, 8140>>,
      <<8144, 8147>>, <<8150, 8155>>, <<8160, 8172>>, <<8178, 8180>>,
      <<8182, 8188>>, <<8305, 8305>>, <<8319, 8319>>, <<8336, 8348>>,
      <<8450, 8450>>, <<8455, 8455>>, <<8458, 8467>>, <<8469, 8469>>,
      <<8473, 8477>>, <<8484, 8484>>, <<8486, 8486>>, <<8488, 8488>>,
      <<8490, 8493>>, <<8495, 8500>>, <<8505, 8505>>, <<8508, 8511>>,
      <<8517, 8521>>, <<8526, 8526>>, <<8544, 8575>>, <<8579, 8580>>,
      <<9398, 9449>>, <<11264, 11492>>, <<11499, 11502>>, <<11506, 11507>>,
      <<11520, 11557>>, <<11559, 11559>>, <<11565, 11565>>, <<42560, 42605>>,
      <<42624, 42653>>, <<42786, 42887>>, <<42891, 42894>>, <<42896, 42954>>,
      <<42960, 42961>>, <<42963, 42963>>, <<42965, 42969>>, <<42997, 42998>>,
      <<43000, 43002>>, <<43824, 43866>>, <<43868, 43880>>, <<43888, 43967>>,
      <<64256, 64262>>, <<64275, 64279>>, <<65313, 65338>>, <<65345, 65370>>,
      <<66560, 66639>>, <<66736, 66771>>, <<66776, 66811>>, <<66928, 66938>>,
      <<66940, 66954>>, <<66956, 66962>>, <<66964, 66965>>, <<66967, 66977>>,
      <<66979, 66993>>, <<66995, 67001>>, <<67003, 67004>>, <<67456, 67456>>,
      <<67459, 67461>>, <<67463, 67504>>, <<67506, 67514>>, <<68736, 68786>>,
      <<68800, 68850>>, <<71840, 71903>>, <<93760, 93823>>,
      <<119808, 119892>>, <<119894, 119964>>, <<119966, 119967>>,
      <<119970, 119970>>, <<119973, 119974>>, <<119977, 119980>>,
      <<119982, 119993>>, <<119995, 119995>>, <<119997, 120003>>,
      <<120005, 120069>>, <<120071, 120074>>, <<120077, 120084>>,
      <<120086, 120092>>, <<120094, 120121>>, <<120123, 120126>>,
      <<120128, 120132>>, <<120134, 120134>>, <<120138, 120144>>,
      <<120146, 120485>>, <<120488, 120512>>, <<120514, 120538>>,
      <<120540, 120570>>, <<120572, 120596>>, <<120598, 120628>>,
      <<120630, 120654>>, <<120656, 120686>>, <<120688, 120712>>,
      <<120714, 120744>>, <<120746, 120770>>, <<120772, 120779>>,
      <<122624, 122633>>, <<122635, 122654>>, <<125184, 125251>>,
      <<127280, 127305>>, <<127312, 127337>>, <<127344, 127369>> }

Cased == UNION {r[1]..r[2] : r \in CasedRanges}

\* str.lower() of the capital sigma at s[i]: the final sigma U+03C2 when a
\* cased letter comes before it and none comes after it, case-ignorable code
\* points skipped on both sides; U+03C3 otherwise
Least(S) == CHOOSE j \in S : \A k \in S : j <= k
Greatest(S) == CHOOSE j \in S : \A k \in S : k <= j

final_sigma(s, before, after) ==
    IF /\ before # {}
       /\ s[Greatest(before)] \in Cased
       /\ (after = {} \/ s[Least(after)] \notin Cased)
    THEN 962 ELSE 963

lower_sigma(s, i) ==
    final_sigma(s, {j \in 1..(i - 1) : s[j] \notin CaseIgnorable},
                {j \in (i + 1)..Len(s) : s[j] \notin CaseIgnorable})

\* str.lower() of the first n code points of s, each in the context of s
RECURSIVE lower_upto(_, _)
lower_upto(s, n) ==
    IF n = 0 THEN << >>
    ELSE lower_upto(s, n - 1)
         \o (IF s[n] = 931 THEN <<lower_sigma(s, n)>> ELSE lower_char(s[n]))

\* str.lower()
lower(s) == lower_upto(s, Len(s))

\* s[i:] with a 1-based first index
Drop(s, i) == SubSeq(s, i, Len(s))

\* Pairs of lower-case code points that re.IGNORECASE takes for the same
\* letter although neither is the lowercase of the other
ExtraCases ==
    { <<105, 305>>, <<115, 383>>, <<181, 956>>, <<305, 105>>, <<383, 115>>,
      <<837, 953>>, <<837, 8126>>, <<912, 8147>>, <<944, 8163>>,
      <<946, 976>>, <<949, 1013>>, <<952, 977>>, <<953, 837>>, <<953, 8126>>,
      <<954, 1008>>, <<956, 181>>, <<960, 982>>, <<961, 1009>>, <<962, 963>>,
      <<963, 962>>, <<966, 981>>, <<976, 946>>, <<977, 952>>, <<981, 966>>,
      <<982, 960>>, <<1008, 954>>, <<1009, 961>>, <<1013, 949>>,
      <<1074, 7296>>, <<1076, 7297>>, <<1086, 7298>>, <<1089, 7299>>,
      <<1090, 7300>>, <<1090, 7301>>, <<1098, 7302>>, <<1123, 7303>>,
      <<7296, 1074>>, <<7297, 1076>>, <<7298, 1086>>, <<7299, 1089>>,
      <<7300, 1090>>, <<7300, 7301>>, <<7301, 1090>>, <<7301, 7300>>,
      <<7302, 1098>>, <<7303, 1123>>, <<7304, 42571>>, <<7777, 7835>>,
      <<7835, 7777>>, <<8126, 837>>, <<8126, 953>>, <<8147, 912>>,
      <<8163, 944>>, <<42571, 7304>>, <<64261, 64262>>, <<64262, 64261>> }

\* re.IGNORECASE takes the lower-case code points lo and ch for one letter
same_letter(lo, ch) == ch = lo \/ <<lo, ch>> \in ExtraCases

\* the literal lit of a pattern compiled with re.IGNORECASE matches s at
\* position i (lit is made of letters that have an upper case, and ':')
MatchesAt(s, i, lit) ==
    /\ i >= 1
    /\ i + Len(lit) - 1 <= Len(s)
    /\ \A k \in 1..Len(lit) :
          same_letter(tolower(lit[k]), tolower(s[i + k - 1]))

\* "lit in s.lower()"
Contains(s, lit) ==
    LET t == lower(s)
    IN  \E i \in 1..(Len(t) - Len(lit) + 1) :
           SubSeq(t, i, i + Len(lit) - 1) = lit

\* first position >= i of s that is not white space (Len(s)+1 when none): \s*
SkipSpace(s, i) ==
    IF \E j \in i..Len(s) : ~IsSpace(s[j])
    THEN CHOOSE j \in i..Len(s) :
            /\ ~IsSpace(s[j])
            /\ \A k \in i..(j - 1) : IsSpace(s[k])
    ELSE Len(s) + 1

\* str.strip()
strip(s) ==
    IF \A i \in 1..Len(s) : IsSpace(s[i]) THEN << >>
    ELSE LET a == SkipSpace(s, 1)
             b == CHOOSE j \in 1..Len(s) :
                      /\ ~IsSpace(s[j])
                      /\ \A k \in (j + 1)..Len(s) : IsSpace(s[k])
         IN  SubSeq(s, a, b)

\* the words of answer_received, as code points
VOPROS == <<1074, 1086, 1087, 1088, 1086, 1089>>
OTVET == <<1086, 1090, 1074, 1077, 1090>>
COLON == <<58>>
DASH == <<45>>

\* re.split(r'ответ:\s*', text, flags=re.IGNORECASE, maxsplit=1)
re_split_otvet(text) ==
    LET lit == OTVET \o COLON
        hits == {i \in 1..Len(text) : MatchesAt(text, i, lit)}
    IN  IF hits = {} THEN <<text>>
        ELSE LET i == CHOOSE h \in hits : \A g \in hits : h <= g
                 j == SkipSpace(text, i + Len(lit))
             IN  <<SubSeq(text, 1, i - 1), Drop(text, j)>>

\* re.sub(r'^.*?вопрос:\s*', '', question_part, flags=re.IGNORECASE):
\* '.' does not match a line feed and '^' matches at the start only
re_sub_vopros(question_part) ==
    LET lit == VOPROS \o COLON
        hits == {i \in 1..Len(question_part) :
                    /\ MatchesAt(question_part, i, lit)
                    /\ \A k \in 1..(i - 1) : question_part[k] # 10}
    IN  IF hits = {} THEN question_part
        ELSE LET i == CHOOSE h \in hits : \A g \in hits : h <= g
             IN  Drop(question_part, SkipSpace(question_part, i + Len(lit)))

Parsed(ok, question, answer, reply) ==
    [ok |-> ok, question |-> question, answer |-> answer, reply |-> reply]

\* The parsing part of answer_received: the (question, answer) pair handed to
\* db.add_company_info, or the reply given instead
parse_answer(text) ==
    IF Contains(text, VOPROS) /\ Contains(text, OTVET)
    THEN LET parts == re_split_otvet(text)
         IN  IF Len(parts) = 2
             THEN LET question == strip(re_sub_vopros(parts[1]))
                      answer == strip(parts[2])
                  IN  IF question # << >> /\ answer # << >>
                      THEN Parsed(TRUE, question, answer, NoName)
                      ELSE Parsed(FALSE, NONE, NONE, "qa_empty")
             ELSE Parsed(FALSE, NONE, NONE, "qa_bad_format_retry")
    ELSE Parsed(FALSE, NONE, NONE, "qa_bad_format")

\* ------------------------------------------------------------------------
\* Dates
\* ------------------------------------------------------------------------
\* s[i] with a 1-based index, 0 (no character) outside the text
At(s, i) == IF i \in 1..Len(s) THEN s[i] ELSE 0

IsLeap(y) == y % 4 = 0 /\ (y % 100 # 0 \/ y % 400 = 0)

DaysInMonth(y, m) ==
    IF m = 2 THEN (IF IsLeap(y) THEN 29 ELSE 28)
    ELSE IF m \in {4, 6, 9, 11} THEN 30 ELSE 31

\* datetime.strptime(date_str, "%d.%m.%Y %H:%M"): the datetime as
\* <<year, month, day, hour, minute>>, or NONE for ValueError.  The format compiles to the regular expression
\*   (3[0-1]|[1-2]\d|0[1-9]|[1-9]| [1-9])\.(1[0-2]|0[1-9]|[1-9])\.(\d\d\d\d)
\*   \s+(2[0-3]|[0-1]\d|\d):([0-5]\d|\d)
\* matched at the start; text left over after the match is a ValueError, and
\* so is a day or year the calendar does not have.
strptime(date_str) ==
    LET s == date_str
        dn == IF At(s, 2) = 46 THEN 1 ELSE 2
        d_ok == IF dn = 1 THEN At(s, 1) \in 49..57
                ELSE /\ At(s, 3) = 46
                     /\ \/ At(s, 1) = 51 /\ At(s, 2) \in 48..49
                        \/ At(s, 1) \in 49..50 /\ IsDigit(At(s, 2))
                        \/ At(s, 1) = 48 /\ At(s, 2) \in 49..57
                        \/ At(s, 1) = 32 /\ At(s, 2) \in 49..57
        day == IF dn = 1 THEN DigitVal(At(s, 1))
               ELSE (IF At(s, 1) = 32 THEN 0 ELSE 10 * DigitVal(At(s, 1)))
                    + DigitVal(At(s, 2))
        mi == dn + 2
        mn == IF At(s, mi + 1) = 46 THEN 1 ELSE 2
        m_ok == IF mn = 1 THEN At(s, mi) \in 49..57
                ELSE /\ At(s, mi + 2) = 46
                     /\ \/ At(s, mi) = 49 /\ At(s, mi + 1) \in 48..50
                        \/ At(s, mi) = 48 /\ At(s, mi + 1) \in 49..57
        month == IF mn = 1 THEN DigitVal(At(s, mi))
                 ELSE 10 * DigitVal(At(s, mi)) + DigitVal(At(s, mi + 1))
        yi == mi + mn + 1
        y_ok == \A k \in 0..3 : IsDigit(At(s, yi + k))
        year == 1000 * DigitVal(At(s, yi)) + 100 * DigitVal(At(s, yi + 1))
                + 10 * DigitVal(At(s, yi + 2)) + DigitVal(At(s, yi + 3))
        wi == yi + 4
        w_ok == IsSpace(At(s, wi))
        hi == SkipSpace(s, wi)
        hn == IF At(s, hi + 1) = 58 THEN 1 ELSE 2
        h_ok == IF hn = 1 THEN IsDigit(At(s, hi))
                ELSE /\ At(s, hi + 2) = 58
                     /\ \/ At(s, hi) = 50 /\ At(s, hi + 1) \in 48..51
                        \/ At(s, hi) \in 48..49 /\ IsDigit(At(s, hi + 1))
        hour == IF hn = 1 THEN DigitVal(At(s, hi))
                ELSE 10 * DigitVal(At(s, hi)) + DigitVal(At(s, hi + 1))
        ni == hi + hn + 1
        nn == IF At(s, ni) \in 48..53 /\ IsDigit(At(s, ni + 1)) THEN 2 ELSE 1
        n_ok == IsDigit(At(s, ni))
        minute == IF nn = 1 THEN DigitVal(At(s, ni))
                  ELSE 10 * DigitVal(At(s, ni)) + DigitVal(At(s, ni + 1))
    IN  IF /\ d_ok /\ m_ok /\ y_ok /\ w_ok /\ h_ok /\ n_ok
           /\ ni + nn - 1 = Len(s)
           /\ year >= 1
           /\ day <= DaysInMonth(year, month)
        THEN <<year, month, day, hour, minute>>
        ELSE NONE

Digits2(n) == <<48 + (n \div 10), 48 + (n % 10)>>

Digits4(n) == Digits2(n \div 100) \o Digits2(n % 100)

\* A datetime is <<year, month, day, hour, minute>> (what strptime gives:
\* second and microsecond 0) or <<year, month, day, hour, minute, second,
\* microsecond>> (what datetime.now() gives)
second(dt) == IF Len(dt) >= 6 THEN dt[6] ELSE 0

microsecond(dt) == IF Len(dt) >= 7 THEN dt[7] ELSE 0

Digits6(n) == Digits2(n \div 10000) \o Digits4(n % 10000)

\* datetime.isoformat(): YYYY-MM-DDTHH:MM:SS, followed by .ffffff when the
\* microsecond is not 0
isoformat(dt) ==
    Digits4(dt[1]) \o <<45>> \o Digits2(dt[2]) \o <<45>> \o Digits2(dt[3])
    \o <<84>> \o Digits2(dt[4]) \o <<58>> \o Digits2(dt[5])
    \o <<58>> \o Digits2(second(dt))
    \o (IF microsecond(dt) # 0 THEN <<46>> \o Digits6(microsecond(dt))
        ELSE << >>)

\* datetime.fromisoformat() of a stored event_date (YYYY-MM-DDTHH:MM:00)
fromisoformat(s) ==
    <<1000 * DigitVal(s[1]) + 100 * DigitVal(s[2]) + 10 * DigitVal(s[3])
        + DigitVal(s[4]),
      10 * DigitVal(s[6]) + DigitVal(s[7]),
      10 * DigitVal(s[9]) + DigitVal(s[10]),
      10 * DigitVal(s[12]) + DigitVal(s[13]),
      10 * DigitVal(s[15]) + DigitVal(s[16])>>

\* dt + timedelta(days=1)
plus_one_day(dt) ==
    LET y == dt[1]
        m == dt[2]
        d == dt[3]
        date == IF d < DaysInMonth(y, m) THEN <<y, m, d + 1>>
                ELSE IF m < 12 THEN <<y, m + 1, 1>>
                ELSE <<y + 1, 1, 1>>
    IN  date \o SubSeq(dt, 4, Len(dt))

\* a <= b for two texts as SQLite compares TEXT values (BINARY collation)
RECURSIVE text_le(_, _)
text_le(a, b) ==
    IF a = << >> THEN TRUE
    ELSE IF b = << >> THEN FALSE
    ELSE IF a[1] # b[1] THEN a[1] < b[1]
    ELSE text_le(Tail(a), Tail(b))

\* ------------------------------------------------------------------------
\* State
\* ------------------------------------------------------------------------
VARIABLES
    conversations,  \* per user and ConversationHandler: its state, END if none
    user_data,      \* context.user_data of each user
    company_info,   \* table company_info, rows in rowid order
    contacts,       \* table contacts, rows in rowid order
    events,         \* table events, rows in rowid order
    digests,        \* table digests, rows in rowid order
    last,           \* the update handled last: handler, reply, Database call
    collected,      \* history: what each user entered last at each collecting step
    calls,          \* history: the add_company_info calls that succeeded
    n_updates,      \* number of updates processed so far
    clock,          \* the current time: Clock[clock] is datetime.now()
    message,        \* the message composed by the last send_daily_digest
    result,         \* rowids of the rows the last Database query returned
    listed,         \* history: per send_daily_digest run, the events it listed
    marked,         \* history: rowids matched by a mark_event_notified call
    dialog          \* history: the Add Event dialog going on without interruption

vars == <<conversations, user_data, company_info, contacts, events, digests,
          last, collected, calls, n_updates, clock, message, result, listed,
          marked, dialog>>

\* Conversation states (bot.py:38-39) and ConversationHandler.END
ASKING_QUESTION == 0
ADDING_CONTACT_NAME == 1
ADDING_CONTACT_INFO == 2
ADDING_EVENT_NAME == 3
ADDING_EVENT_DATE == 4
ADDING_EVENT_DESCRIPTION == 5
END == -1

\* The ConversationHandlers of main(), in the order of add_handler
ConvOrder == <<"question_conv", "answer_conv", "contact_conv", "event_conv",
               "digest_conv">>

Convs == {ConvOrder[i] : i \in 1..Len(ConvOrder)}

\* entry_points of each ConversationHandler: command and callback
entry_command(conv) ==
    CASE conv = "question_conv" -> "question"
      [] conv = "answer_conv" -> "answer"
      [] conv = "contact_conv" -> "add_contact"
      [] conv = "event_conv" -> "add_event"
      [] conv = "digest_conv" -> "add_digest"

entry_handler(conv) ==
    CASE conv = "question_conv" -> "question_start"
      [] conv = "answer_conv" -> "answer_start"
      [] conv = "contact_conv" -> "add_contact_start"
      [] conv = "event_conv" -> "add_event_start"
      [] conv = "digest_conv" -> "add_digest_start"

\* states={...} of each ConversationHandler: the callback of the text
\* MessageHandler registered for a state, NoName if the state has none
state_handler(conv, state) ==
    CASE conv = "question_conv" /\ state = ASKING_QUESTION -> "question_received"
      [] conv = "answer_conv" /\ state = ASKING_QUESTION -> "answer_received"
      [] conv = "contact_conv" /\ state = ADDING_CONTACT_NAME -> "add_contact_name"
      [] conv = "contact_conv" /\ state = ADDING_CONTACT_INFO -> "add_contact_info"
      [] conv = "event_conv" /\ state = ADDING_EVENT_NAME -> "add_event_name"
      [] conv = "event_conv" /\ state = ADDING_EVENT_DATE -> "add_event_date"
      [] conv = "event_conv" /\ state = ADDING_EVENT_DESCRIPTION
            -> "add_event_description"
      [] conv = "digest_conv" /\ state = ASKING_QUESTION -> "add_digest_received"
      [] OTHER -> NoName

\* Updates: a command or a text message (filters.TEXT & ~filters.COMMAND)
Command(c) == [kind |-> "command", command |-> c, text |-> NONE]

Text(t) == [kind |-> "text", command |-> NoName, text |-> t]

\* ConversationHandler.check_update for one handler: the callback chosen for
\* the update, NoName when the handler does not take it.  Without a
\* conversation only the entry point is tried; within one, the handlers of
\* the current state and then the fallbacks (allow_reentry is off).
conv_check(u, conv, upd) ==
    LET state == conversations[u][conv]
    IN  IF state = END
        THEN IF upd.kind = "command" /\ upd.command = entry_command(conv)
             THEN entry_handler(conv) ELSE NoName
        ELSE IF upd.kind = "text" THEN state_handler(conv, state)
        ELSE IF upd.command = "cancel" THEN "cancel"
        ELSE NoName

\* a dispatch that hands a text no conversation takes to question_received
selected_text_as_question(u, upd) ==
    LET hits == {i \in 1..Len(ConvOrder) : conv_check(u, ConvOrder[i], upd) # NoName}
    IN  IF hits = {}
        THEN IF upd.kind = "text"
             THEN [conv |-> "question_conv", handler |-> "question_received"]
             ELSE [conv |-> NoName, handler |-> NoName]
        ELSE LET i == CHOOSE h \in hits : \A g \in hits : h <= g
             IN  [conv |-> ConvOrder[i],
                  handler |-> conv_check(u, ConvOrder[i], upd)]

\* Application.process_update: all handlers are in one group, so the first
\* handler in registration order that takes the update is the only one run
selected(u, upd) ==
    LET hits == {i \in 1..Len(ConvOrder) : conv_check(u, ConvOrder[i], upd) # NoName}
    IN  IF hits = {} THEN [conv |-> NoName, handler |-> NoName]
        ELSE LET i == CHOOSE h \in hits : \A g \in hits : h <= g
             IN  [conv |-> ConvOrder[i],
                  handler |-> conv_check(u, ConvOrder[i], upd)]

\* ------------------------------------------------------------------------
\* Database operations: each takes the table and returns the new table
\* ------------------------------------------------------------------------
\* INSERT OR REPLACE INTO company_info (question, answer) with question.lower():
\* the row with the same (unique) question is deleted, the new row appended
add_company_info(table, question, answer) ==
    LET q == lower(question)
    IN  SelectSeq(table, LAMBDA r : r.question # q)
        \o <<[question |-> q, answer |-> answer]>>

\* SELECT answer FROM company_info WHERE question = ? with question.lower()
get_company_info(table, question) ==
    LET q == lower(question)
        hits == {i \in 1..Len(table) : table[i].question = q}
    IN  IF hits = {} THEN NONE
        ELSE table[CHOOSE h \in hits : \A g \in hits : h <= g].answer

\* INSERT INTO contacts that replaces the row of a contact with the same name
add_contact_unique(table, name, info) ==
    IF \E i \in 1..Len(table) : table[i].name = name
    THEN [i \in 1..Len(table) |->
             IF table[i].name = name THEN [name |-> name, info |-> info]
             ELSE table[i]]
    ELSE Append(table, [name |-> name, info |-> info])

\* INSERT INTO contacts (name, info)
add_contact(table, name, info) ==
    Append(table, [name |-> name, info |-> info])

\* INSERT INTO events (name, event_date, description); notified defaults to 0
add_event(table, name, event_date, description) ==
    Append(table, [name |-> name, event_date |-> isoformat(event_date),
                   description |-> description, notified |-> FALSE])

\* INSERT INTO digests (content); created_at defaults to CURRENT_TIMESTAMP
add_digest(table, content, created_at) ==
    Append(table, [content |-> content, created_at |-> created_at])

\* The rowids in S in the order of ORDER BY <key>: ascending keys[i], or
\* descending when desc; rows with equal keys come out in rowid order
RECURSIVE order_by(_, _, _)
order_by(keys, S, desc) ==
    IF S = {} THEN << >>
    ELSE LET first(i, j) ==
                 IF keys[i] = keys[j] THEN i <= j
                 ELSE IF desc THEN text_le(keys[j], keys[i])
                 ELSE text_le(keys[i], keys[j])
             i == CHOOSE i \in S : \A j \in S : first(i, j)
         IN  <<i>> \o order_by(keys, S \ {i}, desc)

\* SELECT name, info FROM contacts ORDER BY name: the rowids in that order
get_contacts(table) ==
    order_by([i \in 1..Len(table) |-> table[i].name], 1..Len(table), FALSE)

\* SQLite's upper-casing of the ASCII letters, the only ones LIKE folds
like_fold(c) == IF c \in 97..122 THEN c - 32 ELSE c

\* text LIKE pattern as SQLite evaluates it: % matches any run of characters,
\* _ matches one character, ASCII letters match in either case
RECURSIVE like(_, _)
like(text, pattern) ==
    IF pattern = << >> THEN text = << >>
    ELSE IF pattern[1] = 37
    THEN like(text, Tail(pattern)) \/ (text # << >> /\ like(Tail(text), pattern))
    ELSE IF text = << >> THEN FALSE
    ELSE IF pattern[1] = 95 THEN like(Tail(text), Tail(pattern))
    ELSE like_fold(text[1]) = like_fold(pattern[1])
         /\ like(Tail(text), Tail(pattern))

\* SELECT name, info FROM contacts WHERE name LIKE '%<name>%' and fetchone():
\* the rowid of the first matching row as <<rowid>>, << >> for None
search_contact(table, name) ==
    LET hits == {i \in 1..Len(table) :
                    like(table[i].name, <<37>> \o name \o <<37>>)}
    IN  IF hits = {} THEN << >>
        ELSE <<CHOOSE h \in hits : \A g \in hits : h <= g>>

\* get_upcoming_events(days=None)
NoDays == -1

\* dt + timedelta(days=days)
RECURSIVE plus_days(_, _)
plus_days(dt, days) ==
    IF days = 0 THEN dt ELSE plus_days(plus_one_day(dt), days - 1)

\* get_upcoming_events whose query leaves out the condition notified = 0
get_upcoming_events_all(table, now, days) ==
    LET now_str == isoformat(now)
        hits == {i \in 1..Len(table) :
                    /\ text_le(now_str, table[i].event_date)
                    /\ days # NoDays =>
                          text_le(table[i].event_date,
                                  isoformat(plus_days(now, days)))}
    IN  order_by([i \in 1..Len(table) |-> table[i].event_date], hits, FALSE)

\* SELECT name, event_date, description FROM events WHERE event_date >= now
\* [AND event_date <= now + days] AND notified = 0 ORDER BY event_date: the
\* rowids in that order (the dates are compared as ISO texts)
get_upcoming_events(table, now, days) ==
    LET now_str == isoformat(now)
        hits == {i \in 1..Len(table) :
                    /\ text_le(now_str, table[i].event_date)
                    /\ days # NoDays =>
                          text_le(table[i].event_date,
                                  isoformat(plus_days(now, days)))
                    /\ ~table[i].notified}
    IN  order_by([i \in 1..Len(table) |-> table[i].event_date], hits, FALSE)

\* UPDATE events SET notified = 1 WHERE name = ? AND event_date = ?
mark_event_notified(table, event_name, event_date) ==
    [i \in 1..Len(table) |->
        IF table[i].name = event_name
           /\ table[i].event_date = isoformat(event_date)
        THEN [table[i] EXCEPT !.notified = TRUE]
        ELSE table[i]]

\* SELECT content FROM digests ORDER BY created_at DESC LIMIT ?: the rowids
get_recent_digests(table, limit) ==
    LET all == order_by([i \in 1..Len(table) |-> table[i].created_at],
                        1..Len(table), TRUE)
    IN  IF Len(all) <= limit THEN all ELSE SubSeq(all, 1, limit)

\* ------------------------------------------------------------------------
\* Inputs
\* ------------------------------------------------------------------------
\* the users of the dialog specification
Users == {"u1"}

\* "Bob"
T_Bob == <<66, 111, 98>>
\* "01.01.2030 09:00"
T_Date == <<48, 49, 46, 48, 49, 46, 50, 48, 51, 48, 32, 48, 57, 58, 48, 48>>

\* the text messages of the dialog specification (DASH is "-")
Texts == {T_Bob, T_Date, DASH}

\* The values datetime.now() takes, in order: two moments of one second, the
\* same time a day later, one second after that
Clock == << <<2029, 12, 31, 9, 0, 0, 0>>, <<2029, 12, 31, 9, 0, 0, 500000>>,
            <<2030, 1, 1, 9, 0, 0, 0>>, <<2030, 1, 1, 9, 0, 1, 0>> >>

\* SQLite's CURRENT_TIMESTAMP at a moment: YYYY-MM-DD HH:MM:SS
CURRENT_TIMESTAMP(dt) ==
    Digits4(dt[1]) \o <<45>> \o Digits2(dt[2]) \o <<45>> \o Digits2(dt[3])
    \o <<32>> \o Digits2(dt[4]) \o <<58>> \o Digits2(dt[5])
    \o <<58>> \o Digits2(second(dt))

\* the commands that reach the ConversationHandlers
Commands == {"question", "answer", "add_contact", "add_event", "add_digest",
             "cancel"}

\* ------------------------------------------------------------------------
\* Handlers
\* ------------------------------------------------------------------------
EmptyData == [contact_name |-> NONE, event_name |-> NONE, event_date |-> NONE]

\* Python truthiness of a user_data value: not None and not the empty string
Truthy(x) == x # NONE /\ x # << >>

\* What one update was and what came of it: the handler that took it, the
\* reply that reached the user, the Database call made and whether it
\* succeeded, and whether an exception left the handler
Handled(u, handler, conv, text, reply, call, ok) ==
    [user |-> u, handler |-> handler, conv |-> conv, text |-> text,
     reply |-> reply, call |-> call, ok |-> ok, raised |-> FALSE]

\* How update.message.reply_text turns out while one update is handled:
\*   "sent"    every call succeeds
\*   "failed"  the first call raises, a call in the except branch succeeds
\*   "down"    every call raises
\*   "edited"  update.message is None (the update is an edited message), so
\*             every use of update.message raises AttributeError
Deliveries == {"sent", "failed", "down", "edited"}

\* the reply of a handler whose except branch logs and returns END
Prompt(d, reply) == IF d = "sent" THEN reply ELSE NoName

\* The update as handled by a handler whose except branch replies: that reply
\* is the one delivered when the first one failed, and when it raises too
\* the exception leaves the handler
Answered(d, u, handler, conv, text, reply, failure, call, ok) ==
    [Handled(u, handler, conv, text,
             IF d = "sent" THEN reply
             ELSE IF d = "failed" THEN failure ELSE NoName,
             call, ok)
        EXCEPT !.raised = (d = "down")]

\* the update as handled by a handler whose except branch raised at once
Raised(u, handler, conv, text, call, ok) ==
    [Handled(u, handler, conv, text, NoName, call, ok) EXCEPT !.raised = TRUE]

NoUpdate == Handled(NoName, NoName, NoName, NONE, NoName, NONE, FALSE)

\* no Add Event dialog is going on
NoDialog == [n |-> 0, user |-> NoName, name |-> NONE, date |-> NONE]

\* The Add Event dialog after one more update, handled as update says: n
\* counts its steps taken in a row by one user (1 /add_event, 2 the name,
\* 3 a date that was accepted, 4 the description); a rejected date leaves the
\* dialog at step 2, any other update and any step that sent no reply
\* interrupt it
next_dialog(d, update) ==
    IF update.reply = NoName THEN NoDialog
    ELSE IF update.handler = "add_event_start"
    THEN [n |-> 1, user |-> update.user, name |-> NONE, date |-> NONE]
    ELSE IF update.user # d.user THEN NoDialog
    ELSE IF update.handler = "add_event_name" /\ d.n = 1
    THEN [d EXCEPT !.n = 2, !.name = update.text]
    ELSE IF update.handler = "add_event_date" /\ d.n = 2
    THEN IF update.reply = "bad_date" THEN d
         ELSE [d EXCEPT !.n = 3, !.date = update.text]
    ELSE IF update.handler = "add_event_description" /\ d.n = 3
    THEN [d EXCEPT !.n = 4]
    ELSE NoDialog

\* one more update processed (the model stops after MaxUpdates of them)
Step ==
    /\ n_updates < MaxUpdates
    /\ n_updates' = n_updates + 1
    /\ dialog' = next_dialog(dialog, last')

\* one more update processed by a handler that runs no Database query; the
\* daily digest and the clock are not involved
Counted == Step /\ UNCHANGED <<clock, message, result, listed, marked>>

\* the conversation of handler conv moves to new_state (END removes it)
SetState(u, conv, new_state) ==
    conversations' = [conversations EXCEPT ![u][conv] = new_state]

question_start(u) ==
    /\ selected(u, Command("question")).handler = "question_start"
    /\ \E d \in Deliveries :
          /\ SetState(u, "question_conv",
                      IF d = "sent" THEN ASKING_QUESTION ELSE END)
          /\ last' = Handled(u, "question_start", "question_conv", NONE,
                             Prompt(d, "ask_question"), NONE, FALSE)
    /\ Counted
    /\ UNCHANGED <<user_data, company_info, contacts, events, digests,
                   collected, calls>>

question_received(u, t) ==
    /\ selected(u, Text(t)).handler = "question_received"
    /\ \E d \in Deliveries :
          IF d = "edited"
          THEN /\ last' = Raised(u, "question_received", "question_conv", t,
                                 NONE, FALSE)
               /\ UNCHANGED conversations
          ELSE \E ok \in BOOLEAN :
                  LET answer == IF ok THEN get_company_info(company_info, t)
                                ELSE NONE
                  IN  /\ last' = Answered(d, u, "question_received",
                                          "question_conv", t,
                                          IF Truthy(answer) THEN "answer"
                                          ELSE "unknown",
                                          "question_failed",
                                          <<"get_company_info", t>>, ok)
                      /\ SetState(u, "question_conv",
                                  IF d = "down" THEN ASKING_QUESTION ELSE END)
    /\ Counted
    /\ UNCHANGED <<user_data, company_info, contacts, events, digests,
                   collected, calls>>

answer_start(u) ==
    /\ selected(u, Command("answer")).handler = "answer_start"
    /\ \E d \in Deliveries :
          /\ SetState(u, "answer_conv",
                      IF d = "sent" THEN ASKING_QUESTION ELSE END)
          /\ last' = Handled(u, "answer_start", "answer_conv", NONE,
                             Prompt(d, "ask_question_and_answer"), NONE, FALSE)
    /\ Counted
    /\ UNCHANGED <<user_data, company_info, contacts, events, digests,
                   collected, calls>>

answer_received(u, t) ==
    /\ selected(u, Text(t)).handler = "answer_received"
    /\ \E d \in Deliveries :
          IF d = "edited"
          THEN /\ last' = Raised(u, "answer_received", "answer_conv", t,
                                 NONE, FALSE)
               /\ UNCHANGED <<conversations, company_info, calls>>
          ELSE /\ LET p == parse_answer(t)
                  IN  IF p.ok
                      THEN \E ok \in BOOLEAN :
                              /\ company_info' =
                                    IF ok
                                    THEN add_company_info(company_info,
                                                          p.question, p.answer)
                                    ELSE company_info
                              /\ calls' =
                                    IF ok
                                    THEN Append(calls, <<p.question, p.answer>>)
                                    ELSE calls
                              /\ last' = Answered(d, u, "answer_received",
                                                  "answer_conv", t,
                                                  IF ok THEN "qa_added"
                                                  ELSE "qa_error",
                                                  "answer_failed",
                                                  <<"add_company_info",
                                                    p.question, p.answer>>, ok)
                      ELSE /\ UNCHANGED <<company_info, calls>>
                           /\ last' = Answered(d, u, "answer_received",
                                               "answer_conv", t, p.reply,
                                               "answer_failed", NONE, FALSE)
               /\ SetState(u, "answer_conv",
                           IF d = "down" THEN ASKING_QUESTION ELSE END)
    /\ Counted
    /\ UNCHANGED <<user_data, contacts, events, digests, collected>>

\* the fallback of every ConversationHandler; ends the one that took the update
cancel(u) ==
    LET sel == selected(u, Command("cancel"))
    IN  /\ sel.handler = "cancel"
        /\ SetState(u, sel.conv, END)
        /\ \E d \in Deliveries :
              last' = Handled(u, "cancel", sel.conv, NONE,
                              Prompt(d, "cancelled"), NONE, FALSE)
        /\ Counted
        /\ UNCHANGED <<user_data, company_info, contacts, events, digests,
                       collected, calls>>

add_contact_start(u) ==
    /\ selected(u, Command("add_contact")).handler = "add_contact_start"
    /\ \E d \in Deliveries :
          /\ SetState(u, "contact_conv",
                      IF d = "sent" THEN ADDING_CONTACT_NAME ELSE END)
          /\ last' = Handled(u, "add_contact_start", "contact_conv", NONE,
                             Prompt(d, "ask_contact_name"), NONE, FALSE)
    /\ Counted
    /\ UNCHANGED <<user_data, company_info, contacts, events, digests,
                   collected, calls>>

\* add_contact_name with one user_data shared by all users
add_contact_name_shared(u, t) ==
    /\ selected(u, Text(t)).handler = "add_contact_name"
    /\ \E d \in Deliveries :
          /\ user_data' =
                IF d = "edited" THEN user_data
                ELSE [v \in DOMAIN user_data |->
                         [user_data[v] EXCEPT !.contact_name = t]]
          /\ collected' =
                IF d = "edited" THEN collected
                ELSE [collected EXCEPT ![u].contact_name = t]
          /\ SetState(u, "contact_conv",
                      IF d = "sent" THEN ADDING_CONTACT_INFO ELSE END)
          /\ last' = Handled(u, "add_contact_name", "contact_conv", t,
                             Prompt(d, "ask_contact_info"), NONE, FALSE)
    /\ Counted
    /\ UNCHANGED <<company_info, contacts, events, digests, calls>>

add_contact_name(u, t) ==
    /\ selected(u, Text(t)).handler = "add_contact_name"
    /\ \E d \in Deliveries :
          /\ user_data' =
                IF d = "edited" THEN user_data
                ELSE [user_data EXCEPT ![u].contact_name = t]
          /\ collected' =
                IF d = "edited" THEN collected
                ELSE [collected EXCEPT ![u].contact_name = t]
          /\ SetState(u, "contact_conv",
                      IF d = "sent" THEN ADDING_CONTACT_INFO ELSE END)
          /\ last' = Handled(u, "add_contact_name", "contact_conv", t,
                             Prompt(d, "ask_contact_info"), NONE, FALSE)
    /\ Counted
    /\ UNCHANGED <<company_info, contacts, events, digests, calls>>

add_contact_info(u, t) ==
    /\ selected(u, Text(t)).handler = "add_contact_info"
    /\ \E d \in Deliveries :
          IF d = "edited"
          THEN /\ last' = Raised(u, "add_contact_info", "contact_conv", t,
                                 NONE, FALSE)
               /\ UNCHANGED <<conversations, contacts, user_data>>
          ELSE /\ LET name == user_data[u].contact_name
                  IN  IF Truthy(name)
                      THEN \E ok \in BOOLEAN :
                              /\ contacts' =
                                    IF ok THEN add_contact(contacts, name, t)
                                    ELSE contacts
                              /\ user_data' =
                                    IF ok /\ d = "sent"
                                    THEN [user_data EXCEPT ![u] = EmptyData]
                                    ELSE user_data
                              /\ last' = Answered(d, u, "add_contact_info",
                                                  "contact_conv", t,
                                                  IF ok THEN "contact_added"
                                                  ELSE "contact_error",
                                                  "contact_failed",
                                                  <<"add_contact", name, t>>,
                                                  ok)
                      ELSE /\ UNCHANGED <<contacts, user_data>>
                           /\ last' = Answered(d, u, "add_contact_info",
                                               "contact_conv", t,
                                               "contact_error",
                                               "contact_failed", NONE, FALSE)
               /\ SetState(u, "contact_conv",
                           IF d = "down" THEN ADDING_CONTACT_INFO ELSE END)
    /\ Counted
    /\ UNCHANGED <<company_info, events, digests, collected, calls>>

add_event_start(u) ==
    /\ selected(u, Command("add_event")).handler = "add_event_start"
    /\ \E d \in Deliveries :
          /\ SetState(u, "event_conv",
                      IF d = "sent" THEN ADDING_EVENT_NAME ELSE END)
          /\ last' = Handled(u, "add_event_start", "event_conv", NONE,
                             Prompt(d, "ask_event_name"), NONE, FALSE)
    /\ Counted
    /\ UNCHANGED <<user_data, company_info, contacts, events, digests,
                   collected, calls>>

add_event_name(u, t) ==
    /\ selected(u, Text(t)).handler = "add_event_name"
    /\ \E d \in Deliveries :
          /\ user_data' =
                IF d = "edited" THEN user_data
                ELSE [user_data EXCEPT ![u].event_name = t]
          /\ collected' =
                IF d = "edited" THEN collected
                ELSE [collected EXCEPT ![u].event_name = t]
          /\ SetState(u, "event_conv",
                      IF d = "sent" THEN ADDING_EVENT_DATE ELSE END)
          /\ last' = Handled(u, "add_event_name", "event_conv", t,
                             Prompt(d, "ask_event_date"), NONE, FALSE)
    /\ Counted
    /\ UNCHANGED <<company_info, contacts, events, digests, calls>>

add_event_date(u, t) ==
    /\ selected(u, Text(t)).handler = "add_event_date"
    /\ \E d \in Deliveries :
          LET event_date == IF d = "edited" THEN NONE ELSE strptime(t)
          IN  IF event_date # NONE
              THEN /\ user_data' =
                         [user_data EXCEPT ![u].event_date = event_date]
                   /\ collected' =
                         [collected EXCEPT ![u].event_date = event_date]
                   /\ SetState(u, "event_conv",
                               IF d = "sent" THEN ADDING_EVENT_DESCRIPTION
                               ELSE END)
                   /\ last' = Handled(u, "add_event_date", "event_conv", t,
                                      Prompt(d, "ask_event_description"),
                                      NONE, FALSE)
              ELSE /\ UNCHANGED <<user_data, collected>>
                   /\ SetState(u, "event_conv",
                               IF d = "sent" THEN ADDING_EVENT_DATE ELSE END)
                   /\ last' = Handled(u, "add_event_date", "event_conv", t,
                                      Prompt(d, "bad_date"), NONE, FALSE)
    /\ Counted
    /\ UNCHANGED <<company_info, contacts, events, digests, calls>>

add_event_description(u, t) ==
    /\ selected(u, Text(t)).handler = "add_event_description"
    /\ \E d \in Deliveries :
          IF d = "edited"
          THEN /\ last' = Raised(u, "add_event_description", "event_conv", t,
                                 NONE, FALSE)
               /\ UNCHANGED <<conversations, events, user_data>>
          ELSE /\ LET name == user_data[u].event_name
                      event_date == user_data[u].event_date
                      description == IF t # DASH THEN t ELSE << >>
                  IN  IF Truthy(name) /\ event_date # NONE
                      THEN \E ok \in BOOLEAN :
                              /\ events' =
                                    IF ok
                                    THEN add_event(events, name, event_date,
                                                   description)
                                    ELSE events
                              /\ user_data' =
                                    IF ok /\ d = "sent"
                                    THEN [user_data EXCEPT ![u] = EmptyData]
                                    ELSE user_data
                              /\ last' = Answered(d, u, "add_event_description",
                                                  "event_conv", t,
                                                  IF ok THEN "event_added"
                                                  ELSE "event_error",
                                                  "event_failed",
                                                  <<"add_event", name,
                                                    event_date, description>>,
                                                  ok)
                      ELSE /\ UNCHANGED <<events, user_data>>
                           /\ last' = Answered(d, u, "add_event_description",
                                               "event_conv", t,
                                               "event_data_missing",
                                               "event_failed", NONE, FALSE)
               /\ SetState(u, "event_conv",
                           IF d = "down" THEN ADDING_EVENT_DESCRIPTION
                           ELSE END)
    /\ Counted
    /\ UNCHANGED <<company_info, contacts, digests, collected, calls>>

add_digest_start(u) ==
    /\ selected(u, Command("add_digest")).handler = "add_digest_start"
    /\ \E d \in Deliveries :
          /\ SetState(u, "digest_conv",
                      IF d = "sent" THEN ASKING_QUESTION ELSE END)
          /\ last' = Handled(u, "add_digest_start", "digest_conv", NONE,
                             Prompt(d, "ask_digest"), NONE, FALSE)
    /\ Counted
    /\ UNCHANGED <<user_data, company_info, contacts, events, digests,
                   collected, calls>>

add_digest_received(u, t) ==
    /\ selected(u, Text(t)).handler = "add_digest_received"
    /\ \E d \in Deliveries :
          IF d = "edited"
          THEN /\ last' = Raised(u, "add_digest_received", "digest_conv", t,
                                 NONE, FALSE)
               /\ UNCHANGED <<conversations, digests>>
          ELSE \E ok \in BOOLEAN :
                  /\ digests' =
                        IF ok THEN add_digest(digests, t,
                                              CURRENT_TIMESTAMP(Clock[clock]))
                        ELSE digests
                  /\ last' = Answered(d, u, "add_digest_received",
                                      "digest_conv", t,
                                      IF ok THEN "digest_added"
                                      ELSE "digest_error",
                                      "digest_failed", <<"add_digest", t>>, ok)
                  /\ SetState(u, "digest_conv",
                              IF d = "down" THEN ASKING_QUESTION ELSE END)
    /\ Counted
    /\ UNCHANGED <<user_data, company_info, contacts, events, collected,
                   calls>>

\* an update no handler takes: nothing runs
unhandled(u, upd) ==
    /\ selected(u, upd).handler = NoName
    /\ last' = Handled(u, NoName, NoName, upd.text, NoName, NONE, FALSE)
    /\ Counted
    /\ UNCHANGED <<conversations, user_data, company_info, contacts, events,
                   digests, collected, calls>>

\* ------------------------------------------------------------------------
\* Stateless commands: CommandHandlers registered before the conversations,
\* so they take their command whatever the conversations are doing
\* ------------------------------------------------------------------------
\* a stateless handler that ends the conversations of the user
Stateless_ending(u, update) ==
    /\ last' = update
    /\ Step
    /\ conversations' = [conversations EXCEPT ![u] = [c \in Convs |-> END]]
    /\ UNCHANGED <<user_data, company_info, contacts, events,
                   digests, collected, calls, clock, message, listed, marked>>

\* a handler that replies and touches neither the conversations nor the tables
Stateless(u, update) ==
    /\ last' = update
    /\ Step
    /\ UNCHANGED <<conversations, user_data, company_info, contacts, events,
                   digests, collected, calls, clock, message, listed, marked>>

start(u) ==
    /\ \E d \in Deliveries :
          Stateless(u, IF d = "edited"
                       THEN Raised(u, "start", NoName, NONE, NONE, FALSE)
                       ELSE Answered(d, u, "start", NoName, NONE, "welcome",
                                     "try_later", NONE, FALSE))
    /\ UNCHANGED result

help_command(u) ==
    /\ \E d \in Deliveries :
          Stateless(u, IF d = "edited"
                       THEN Raised(u, "help_command", NoName, NONE, NONE, FALSE)
                       ELSE Answered(d, u, "help_command", NoName, NONE, "help",
                                     "try_later", NONE, FALSE))
    /\ UNCHANGED result

show_contacts(u) ==
    \E d \in Deliveries, ok \in BOOLEAN :
        LET rows == IF ok THEN get_contacts(contacts) ELSE << >>
        IN  /\ result' = rows
            /\ Stateless(u, IF d = "edited"
                            THEN Raised(u, "show_contacts", NoName, NONE,
                                        <<"get_contacts">>, ok)
                            ELSE Answered(d, u, "show_contacts", NoName, NONE,
                                          IF rows # << >> THEN "contacts"
                                          ELSE "no_contacts",
                                          "contacts_failed",
                                          <<"get_contacts">>, ok))

\* " ".join(context.args)
RECURSIVE join(_)
join(args) ==
    IF args = << >> THEN << >>
    ELSE IF Len(args) = 1 THEN args[1]
    ELSE args[1] \o <<32>> \o join(Tail(args))

\* /find_contact with the words after the command in context.args
find_contact(u, args) ==
    \E d \in Deliveries :
        IF args = << >>
        THEN /\ Stateless(u, IF d = "edited"
                             THEN Raised(u, "find_contact", NoName, NONE, NONE,
                                         FALSE)
                             ELSE Answered(d, u, "find_contact", NoName, NONE,
                                           "find_contact_usage",
                                           "find_contact_failed", NONE, FALSE))
             /\ UNCHANGED result
        ELSE \E ok \in BOOLEAN :
                LET search_name == join(args)
                    contact == IF ok THEN search_contact(contacts, search_name)
                               ELSE << >>
                IN  /\ result' = contact
                    /\ Stateless(u, IF d = "edited"
                                    THEN Raised(u, "find_contact", NoName, NONE,
                                                <<"search_contact",
                                                  search_name>>, ok)
                                    ELSE Answered(d, u, "find_contact", NoName,
                                                  NONE,
                                                  IF contact # << >>
                                                  THEN "contact"
                                                  ELSE "contact_not_found",
                                                  "find_contact_failed",
                                                  <<"search_contact",
                                                    search_name>>, ok))

show_events(u) ==
    \E d \in Deliveries, ok \in BOOLEAN :
        LET rows == IF ok THEN get_upcoming_events(events, Clock[clock], NoDays)
                    ELSE << >>
        IN  /\ result' = rows
            /\ Stateless(u, IF d = "edited"
                            THEN Raised(u, "show_events", NoName, NONE,
                                        <<"get_upcoming_events">>, ok)
                            ELSE Answered(d, u, "show_events", NoName, NONE,
                                          IF rows # << >> THEN "events"
                                          ELSE "no_events",
                                          "events_failed",
                                          <<"get_upcoming_events">>, ok))

show_digest(u) ==
    \E d \in Deliveries, ok \in BOOLEAN :
        LET rows == IF ok THEN get_recent_digests(digests, 5) ELSE << >>
        IN  /\ result' = rows
            /\ Stateless(u, IF d = "edited"
                            THEN Raised(u, "show_digest", NoName, NONE,
                                        <<"get_recent_digests">>, ok)
                            ELSE Answered(d, u, "show_digest", NoName, NONE,
                                          IF rows # << >> THEN "digests"
                                          ELSE "no_digests",
                                          "digests_failed",
                                          <<"get_recent_digests">>, ok))

\* ------------------------------------------------------------------------
\* The daily digest and the clock
\* ------------------------------------------------------------------------
\* texts of the message: the header, the placeholder used without a digest,
\* the header of the events section, the bullet of an event line, a line feed
DIGEST_HEADER ==
    <<128240, 32, 1045, 1078, 1077, 1076, 1085, 1077, 1074, 1085, 1099, 1081,
      32, 1076, 1072, 1081, 1076, 1078, 1077, 1089, 1090, 58, 10, 10>>

NO_DIGEST ==
    <<1057, 1077, 1075, 1086, 1076, 1085, 1103, 32, 1085, 1077, 1090, 32, 1085,
      1086, 1074, 1099, 1093, 32, 1076, 1072, 1081, 1076, 1078, 1077, 1089,
      1090, 1086, 1074, 46>>

EVENTS_HEADER ==
    <<10, 10, 128197, 32, 1057, 1086, 1073, 1099, 1090, 1080, 1103, 32, 1085,
      1072, 32, 1089, 1077, 1075, 1086, 1076, 1085, 1103, 58, 10>>

BULLET == <<8226, 32>>

LF == <<10>>

\* the lines "• <name>\n" of the events with the given rowids, in that order
RECURSIVE event_lines(_, _)
event_lines(table, rows) ==
    IF rows = << >> THEN << >>
    ELSE BULLET \o table[rows[1]].name \o LF \o event_lines(table, Tail(rows))

\* the message of send_daily_digest from the rows its two queries returned
daily_message(digest_rows, event_rows) ==
    DIGEST_HEADER
    \o (IF digest_rows # << >> THEN digests[digest_rows[1]].content
        ELSE NO_DIGEST)
    \o (IF event_rows # << >> THEN EVENTS_HEADER \o event_lines(events, event_rows)
        ELSE << >>)

\* One call of the coroutine: the latest digest and the events of the next day are
\* put into one message, which is logged.  Either query returns [] when
\* sqlite3 raises.
send_daily_digest ==
    /\ Len(listed) < MaxRuns
    /\ \E ok_digests, ok_events \in BOOLEAN :
          LET digest_rows == IF ok_digests THEN get_recent_digests(digests, 1)
                             ELSE << >>
              event_rows == IF ok_events
                            THEN get_upcoming_events(events, Clock[clock], 1)
                            ELSE << >>
          IN  /\ message' = daily_message(digest_rows, event_rows)
              /\ result' = event_rows
              /\ listed' = Append(listed, event_rows)
              /\ last' = Handled(NoName, "send_daily_digest", NoName, NONE,
                                 NoName, NONE, ok_digests /\ ok_events)
    /\ UNCHANGED <<conversations, user_data, company_info, contacts, events,
                   digests, collected, calls, n_updates, dialog, clock, marked>>

\* time passes: datetime.now() takes its next value
tick ==
    /\ clock < Len(Clock)
    /\ clock' = clock + 1
    /\ UNCHANGED <<conversations, user_data, company_info, contacts, events,
                   digests, last, collected, calls, n_updates, dialog, message, result,
                   listed, marked>>


\* ------------------------------------------------------------------------
\* Specification of the dialogs: any users, any updates, in any order
\* ------------------------------------------------------------------------
\* After start-up: no conversation, empty user_data, empty tables
Init ==
    /\ conversations = [u \in Users |-> [c \in Convs |-> END]]
    /\ user_data = [u \in Users |-> EmptyData]
    /\ company_info = << >>
    /\ contacts = << >>
    /\ events = << >>
    /\ digests = << >>
    /\ last = NoUpdate
    /\ collected = [u \in Users |-> EmptyData]
    /\ calls = << >>
    /\ n_updates = 0
    /\ clock = 1
    /\ message = NONE
    /\ result = << >>
    /\ listed = << >>
    /\ marked = {}
    /\ dialog = NoDialog

Next ==
    \E u \in Users :
          \/ question_start(u)
          \/ answer_start(u)
          \/ add_contact_start(u)
          \/ add_event_start(u)
          \/ add_digest_start(u)
          \/ cancel(u)
          \/ \E t \in Texts :
                \/ question_received(u, t)
                \/ answer_received(u, t)
                \/ add_contact_name(u, t)
                \/ add_contact_info(u, t)
                \/ add_event_name(u, t)
                \/ add_event_date(u, t)
                \/ add_event_description(u, t)
                \/ add_digest_received(u, t)
                \/ unhandled(u, Text(t))
          \/ \E c \in Commands : unhandled(u, Command(c))

Spec == Init /\ [][Next]_vars

\* ------------------------------------------------------------------------
\* Specification of the Add Q&A dialog over many input texts
\* ------------------------------------------------------------------------
\* Parts of the input texts: a prefix, the question label, the question, the
\* answer label, the answer
Prefixes == { << >>, <<120, 32>>, <<97, 10>> }                \* "", "x ", "a\n"

\* "Вопрос:", "вопрос: "
QLabelsSep == { <<1042, 1086, 1087, 1088, 1086, 1089, 58>>,
                <<1074, 1086, 1087, 1088, 1086, 1089, 58, 32>> }

\* "ВОПРОС " (no separator), "" (no label)
QLabelsOther == { <<1042, 1054, 1055, 1056, 1054, 1057, 32>>, << >> }

QParts == { <<88>>, <<32>>, <<32, 113, 32, 97, 10>> }         \* "X", " ", " q a\n"

\* "Ответ:", "ОТВЕТ: "
ALabelsSep == { <<1054, 1090, 1074, 1077, 1090, 58>>,
                <<1054, 1058, 1042, 1045, 1058, 58, 32>> }

\* "ответ " (no separator), "" (no label)
ALabelsOther == { <<1086, 1090, 1074, 1077, 1090, 32>>, << >> }

AParts == { <<89>>, <<32>>, <<32, 89, 46, 32>> }              \* "Y", " ", " Y. "

\* "Вопрос: What is X? Ответ: It is Y."
T_Example ==
    <<1042, 1086, 1087, 1088, 1086, 1089, 58, 32, 87, 104, 97, 116, 32, 105,
      115, 32, 88, 63, 32, 1054, 1090, 1074, 1077, 1090, 58, 32, 73, 116, 32,
      105, 115, 32, 89, 46>>

\* Texts with the Cyrillic Extended-C letters that re.IGNORECASE takes for
\* "в", "о" and "с", and one with capital sigmas:
\* "вопрос: q ᲂтвет: a ответ", "вопрос ᲀопрос: q ответ: a",
\* "вопроᲃ: q ответ: a вопрос", "ΣΑΣ вопрос: q ответ: a"
QAExtended ==
    { <<1074, 1086, 1087, 1088, 1086, 1089, 58, 32, 113, 32, 7298, 1090,
       1074, 1077, 1090, 58, 32, 97, 32, 1086, 1090, 1074, 1077, 1090>>,
      <<1074, 1086, 1087, 1088, 1086, 1089, 32, 7296, 1086, 1087, 1088,
       1086, 1089, 58, 32, 113, 32, 1086, 1090, 1074, 1077, 1090, 58, 32,
       97>>,
      <<1074, 1086, 1087, 1088, 1086, 7299, 58, 32, 113, 32, 1086, 1090,
       1074, 1077, 1090, 58, 32, 97, 32, 1074, 1086, 1087, 1088, 1086,
       1089>>,
      <<931, 913, 931, 32, 1074, 1086, 1087, 1088, 1086, 1089, 58, 32, 113,
       32, 1086, 1090, 1074, 1077, 1090, 58, 32, 97>> }

QATexts ==
    { p \o ql \o q \o al \o a :
        p \in Prefixes, ql \in QLabelsSep \cup QLabelsOther, q \in QParts,
        al \in ALabelsSep \cup ALabelsOther, a \in AParts }
    \cup {T_Example} \cup QAExtended

parse_answer_start(u) ==
    /\ n_updates < MaxParseUpdates
    /\ answer_start(u)

parse_answer_received(u, t) ==
    /\ n_updates < MaxParseUpdates
    /\ answer_received(u, t)

NextParse ==
    \E u \in Users :
        \/ parse_answer_start(u)
        \/ \E t \in QATexts : parse_answer_received(u, t)

SpecParse == Init /\ [][NextParse]_vars

\* ------------------------------------------------------------------------
\* Specification of the Add Event dialog up to its date step, over many texts
\* ------------------------------------------------------------------------
DateTexts ==
    { T_Date, T_Bob, DASH,
      <<50, 53, 46, 49, 50, 46, 50, 48, 50, 52, 32, 49, 53, 58, 48, 48>>,
                                                    \* "25.12.2024 15:00"
      <<50, 48, 50, 52, 45, 49, 50, 45, 50, 53>>,   \* "2024-12-25"
      <<51, 49, 46, 48, 50, 46, 50, 48, 50, 52, 32, 49, 48, 58, 48, 48>>,
                                                    \* "31.02.2024 10:00"
      <<50, 57, 46, 48, 50, 46, 50, 48, 50, 52, 32, 49, 58, 49>>,
                                                    \* "29.02.2024 1:1"
      <<49, 46, 49, 46, 50, 48, 51, 48, 32, 57, 58, 48, 48>>,
                                                    \* "1.1.2030 9:00"
      <<50, 53, 46, 49, 50, 46, 50, 48, 50, 52, 32, 49, 53, 58, 48, 48, 32>>,
                                                    \* "25.12.2024 15:00 "
      <<50, 53, 46, 49, 50, 46, 50, 52, 32, 49, 53, 58, 48, 48>>,
                                                    \* "25.12.24 15:00"
      <<50, 53, 46, 49, 50, 46, 50, 48, 50, 52, 32, 50, 52, 58, 48, 48>>,
                                                    \* "25.12.2024 24:00"
      <<50, 53, 46, 49, 50, 46, 50, 48, 50, 52, 10, 49, 53, 58, 48, 48>>,
                                                    \* "25.12.2024\n15:00"
      <<50, 53, 46, 49, 50, 46, 50, 48, 50, 52>>,   \* "25.12.2024"
      <<50, 53, 46, 49, 50, 46, 48, 48, 48, 48, 32, 49, 53, 58, 48, 48>>,
                                                    \* "25.12.0000 15:00"
      <<32, 53, 46, 49, 50, 46, 50, 48, 50, 52, 32, 49, 53, 58, 48, 48>>,
                                                    \* " 5.12.2024 15:00"
      <<53, 46, 49, 50, 46, 50, 48, 50, 52, 32, 49, 53, 58>>,
                                                    \* "5.12.2024 15:"
      <<50, 53, 46, 49, 50, 46, 50, 48, 50, 52, 32, 49, 53, 58, 53>>,
                                                    \* "25.12.2024 15:5"
      <<50, 53, 46, 49, 50, 46, 50, 48, 50, 52, 32, 49, 53, 58, 54, 48>>,
                                                    \* "25.12.2024 15:60"
      <<55, 46, 49, 50, 46, 50, 48, 50, 52, 32, 49, 53, 58, 48, 48, 48>>,
                                                    \* "7.12.2024 15:000"
      <<51, 50, 46, 48, 49, 46, 50, 48, 51, 48, 32, 48, 57, 58, 48, 48>>,
                                                    \* "32.01.2030 09:00"
      <<51, 48, 46, 49, 51, 46, 50, 48, 51, 48, 32, 48, 57, 58, 48, 48>>,
                                                    \* "30.13.2030 09:00"
      <<50, 57, 46, 48, 50, 46, 50, 48, 50, 51, 32, 49, 48, 58, 48, 48>>,
                                                    \* "29.02.2023 10:00"
      <<50, 57, 46, 48, 50, 46, 49, 57, 48, 48, 32, 49, 48, 58, 48, 48>>,
                                                    \* "29.02.1900 10:00"
      <<50, 57, 46, 48, 50, 46, 50, 48, 48, 48, 32, 49, 48, 58, 48, 48>>,
                                                    \* "29.02.2000 10:00"
      <<50, 53, 44, 49, 50, 44, 50, 48, 50, 52, 32, 49, 53, 58, 48, 48>>,
                                                    \* "25,12,2024 15:00"
      <<50, 53, 46, 49, 50, 46, 50, 48, 50, 52, 32, 49, 53, 48, 48>>,
                                                    \* "25.12.2024 1500"
      <<50, 53, 46, 49, 50, 46, 50, 48, 50, 52, 32, 32, 49, 53, 58, 48, 48>>,
                                                    \* "25.12.2024  15:00"
      <<50, 53, 47, 49, 50, 47, 50, 48, 50, 52, 32, 49, 53, 58, 48, 48>>,
                                                    \* "25/12/2024 15:00"
      <<51, 49, 46, 48, 52, 46, 50, 48, 50, 52, 32, 49, 48, 58, 48, 48>>,
                                                    \* "31.04.2024 10:00"
      <<51, 49, 46, 49, 50, 46, 57, 57, 57, 57, 32, 50, 51, 58, 53, 57>>,
                                                    \* "31.12.9999 23:59"
      <<50, 53, 46, 49, 50, 46, 1634, 1632, 1634, 1636, 32, 49, 53, 58, 48,
       48>>,
                                    \* "25.12.٢٠٢٤ 15:00" (Arabic-Indic digits)
      <<50, 1637, 46, 49, 50, 46, 50, 48, 50, 52, 32, 49, 1637, 58, 48, 1632>>
                                    \* "2٥.12.2024 1٥:0٠"
    }

NextDate ==
    \E u \in Users :
        \/ add_event_start(u)
        \/ add_event_name(u, T_Bob)
        \/ \E t \in DateTexts : add_event_date(u, t)

SpecDate == Init /\ [][NextDate]_vars

\* ------------------------------------------------------------------------
\* Specification of the Store's Q&A table: direct calls of add_company_info
\* ------------------------------------------------------------------------
\* "Ab", "ab", "AB", "b", "Вопрос", "вопрос", "É", "é", "ΑΣ", "ασ"
StoreQuestions ==
    { <<65, 98>>, <<97, 98>>, <<65, 66>>, <<98>>,
      <<1042, 1086, 1087, 1088, 1086, 1089>>, VOPROS,
      <<201>>, <<233>>, <<913, 931>>, <<945, 963>> }

StoreAnswers == { <<49>>, <<50>> }                            \* "1", "2"

\* Database.add_company_info(question, answer) called on the Store; a
\* sqlite3.Error makes it return False with the table as it was
call_add_company_info(question, answer) ==
    /\ Len(calls) < MaxCalls
    /\ \E ok \in BOOLEAN :
          /\ company_info' =
                IF ok THEN add_company_info(company_info, question, answer)
                ELSE company_info
          /\ calls' = IF ok THEN Append(calls, <<question, answer>>) ELSE calls
          /\ last' = Handled(NoName, "Database.add_company_info", NoName, NONE,
                             NoName, <<"add_company_info", question, answer>>, ok)
    /\ UNCHANGED <<conversations, user_data, contacts, events, digests,
                   collected, n_updates, dialog, clock, message, result, listed,
                   marked>>

NextStore ==
    \E question \in StoreQuestions, answer \in StoreAnswers :
        call_add_company_info(question, answer)

SpecStore == Init /\ [][NextStore]_vars

\* ------------------------------------------------------------------------
\* Specification of send_daily_digest called directly (main does not schedule
\* it): events and digests are added to the Store, time passes, the coroutine
\* is called
\* ------------------------------------------------------------------------
\* "A", "B"
EventNames == { <<65>>, <<66>> }

\* 01.01.2030 09:00 and 02.01.2030 09:00
EventDates == { <<2030, 1, 1, 9, 0>>, <<2030, 1, 2, 9, 0>> }

\* the events added in the specification of send_daily_digest: "A" on 02.01.2030 09:00
\* and "B" on 01.01.2030 09:00
NotifyEvents == { << <<65>>, <<2030, 1, 2, 9, 0>> >>,
                  << <<66>>, <<2030, 1, 1, 9, 0>> >> }

\* "d1", "d2"
DigestTexts == { <<100, 49>>, <<100, 50>> }

\* Database.add_event(name, event_date) called on the Store
call_add_event(name, event_date) ==
    /\ Len(events) < MaxRows
    /\ \E ok \in BOOLEAN :
          /\ events' = IF ok THEN add_event(events, name, event_date, << >>)
                       ELSE events
          /\ last' = Handled(NoName, "Database.add_event", NoName, NONE, NoName,
                             <<"add_event", name, event_date, << >> >>, ok)
    /\ UNCHANGED <<conversations, user_data, company_info, contacts, digests,
                   collected, calls, n_updates, dialog, clock, message, result, listed,
                   marked>>

\* Database.add_digest(content) called on the Store
call_add_digest(content) ==
    /\ Len(digests) < MaxRows
    /\ \E ok \in BOOLEAN :
          /\ digests' = IF ok THEN add_digest(digests, content,
                                              CURRENT_TIMESTAMP(Clock[clock]))
                        ELSE digests
          /\ last' = Handled(NoName, "Database.add_digest", NoName, NONE, NoName,
                             <<"add_digest", content>>, ok)
    /\ UNCHANGED <<conversations, user_data, company_info, contacts, events,
                   collected, calls, n_updates, dialog, clock, message, result, listed,
                   marked>>

NextNotify ==
    \/ \E e \in NotifyEvents : call_add_event(e[1], e[2])
    \/ \E content \in DigestTexts : call_add_digest(content)
    \/ send_daily_digest
    \/ tick

SpecNotify == Init /\ [][NextNotify]_vars

\* ------------------------------------------------------------------------
\* Specification of the events table: events are added, marked as notified
\* and queried while time passes
\* ------------------------------------------------------------------------
\* mark_event_notified whose UPDATE stays in the table when the call fails
call_mark_event_notified_kept(event_name, event_date) ==
    /\ \E ok \in BOOLEAN :
          /\ events' = mark_event_notified(events, event_name, event_date)
          /\ marked' = IF ok
                       THEN marked \cup
                            {i \in 1..Len(events) :
                                /\ events[i].name = event_name
                                /\ events[i].event_date = isoformat(event_date)}
                       ELSE marked
          /\ last' = Handled(NoName, "Database.mark_event_notified", NoName,
                             NONE, NoName,
                             <<"mark_event_notified", event_name, event_date>>,
                             ok)
    /\ UNCHANGED <<conversations, user_data, company_info, contacts, digests,
                   collected, calls, n_updates, dialog, clock, message, result, listed>>

\* Database.mark_event_notified(event_name, event_date) called on the Store
call_mark_event_notified(event_name, event_date) ==
    /\ \E ok \in BOOLEAN :
          /\ events' = IF ok
                       THEN mark_event_notified(events, event_name, event_date)
                       ELSE events
          /\ marked' = IF ok
                       THEN marked \cup
                            {i \in 1..Len(events) :
                                /\ events[i].name = event_name
                                /\ events[i].event_date = isoformat(event_date)}
                       ELSE marked
          /\ last' = Handled(NoName, "Database.mark_event_notified", NoName,
                             NONE, NoName,
                             <<"mark_event_notified", event_name, event_date>>,
                             ok)
    /\ UNCHANGED <<conversations, user_data, company_info, contacts, digests,
                   collected, calls, n_updates, dialog, clock, message, result, listed>>

\* Database.get_upcoming_events(days) called on the Store
call_get_upcoming_events(days) ==
    /\ \E ok \in BOOLEAN :
          /\ result' = IF ok
                       THEN get_upcoming_events(events, Clock[clock], days)
                       ELSE << >>
          /\ last' = Handled(NoName, "Database.get_upcoming_events", NoName,
                             NONE, NoName, <<"get_upcoming_events", days>>, ok)
    /\ UNCHANGED <<conversations, user_data, company_info, contacts, events,
                   digests, collected, calls, n_updates, dialog, clock, message, listed,
                   marked>>

NextEvents ==
    \/ \E name \in EventNames, event_date \in EventDates :
          \/ call_add_event(name, event_date)
          \/ call_mark_event_notified(name, event_date)
    \/ \E days \in {NoDays, 1} : call_get_upcoming_events(days)
    \/ tick

SpecEvents == Init /\ [][NextEvents]_vars


\* ------------------------------------------------------------------------
\* Specification of two users whose Add Contact and Add Event dialogs
\* interleave; each user sends texts of their own
\* ------------------------------------------------------------------------
Users2 == {"u1", "u2"}

\* "Ann"
T_Ann == <<65, 110, 110>>
\* "02.01.2030 09:00"
T_Date2 == <<48, 50, 46, 48, 49, 46, 50, 48, 51, 48, 32, 48, 57, 58, 48, 48>>

\* the texts a user sends
UserTexts(u) == IF u = "u1" THEN {T_Bob, T_Date} ELSE {T_Ann, T_Date2}

InitUsers ==
    /\ conversations = [u \in Users2 |-> [c \in Convs |-> END]]
    /\ user_data = [u \in Users2 |-> EmptyData]
    /\ company_info = << >>
    /\ contacts = << >>
    /\ events = << >>
    /\ digests = << >>
    /\ last = NoUpdate
    /\ collected = [u \in Users2 |-> EmptyData]
    /\ calls = << >>
    /\ n_updates = 0
    /\ clock = 1
    /\ message = NONE
    /\ result = << >>
    /\ listed = << >>
    /\ marked = {}
    /\ dialog = NoDialog

NextUsers ==
    \E u \in Users2 :
        \/ add_contact_start(u)
        \/ add_event_start(u)
        \/ cancel(u)
        \/ \E c \in {"add_contact", "add_event", "cancel"} :
              unhandled(u, Command(c))
        \/ \E t \in UserTexts(u) :
              \/ add_contact_name(u, t)
              \/ add_contact_info(u, t)
              \/ add_event_name(u, t)
              \/ add_event_date(u, t)
              \/ add_event_description(u, t)
              \/ unhandled(u, Text(t))

SpecUsers == InitUsers /\ [][NextUsers]_vars


\* ------------------------------------------------------------------------
\* Specification of the contacts table: contacts are added and searched
\* ------------------------------------------------------------------------
\* "Bob", "Rob", "Ann"
ContactNames == { T_Bob, <<82, 111, 98>>, <<65, 110, 110>> }

\* "o", "Bob", "bob", "n", "_", "z"
SearchNames == { <<111>>, T_Bob, <<98, 111, 98>>, <<110>>, <<95>>, <<122>> }

\* Database.add_contact(name, info) called on the Store
call_add_contact(name, info) ==
    /\ Len(contacts) < MaxRows
    /\ \E ok \in BOOLEAN :
          /\ contacts' = IF ok THEN add_contact(contacts, name, info)
                         ELSE contacts
          /\ last' = Handled(NoName, "Database.add_contact", NoName, NONE,
                             NoName, <<"add_contact", name, info>>, ok)
    /\ UNCHANGED <<conversations, user_data, company_info, events, digests,
                   collected, calls, n_updates, dialog, clock, message, result,
                   listed, marked>>

\* Database.search_contact(name) called on the Store
call_search_contact(name) ==
    /\ \E ok \in BOOLEAN :
          /\ result' = IF ok THEN search_contact(contacts, name) ELSE << >>
          /\ last' = Handled(NoName, "Database.search_contact", NoName, NONE,
                             NoName, <<"search_contact", name>>, ok)
    /\ UNCHANGED <<conversations, user_data, company_info, contacts, events,
                   digests, collected, calls, n_updates, dialog, clock, message,
                   listed, marked>>

NextContacts ==
    \/ \E name \in ContactNames : call_add_contact(name, DASH)
    \/ \E name \in SearchNames : call_search_contact(name)

SpecContacts == Init /\ [][NextContacts]_vars


\* ------------------------------------------------------------------------
\* Specification of the whole bot: dialog messages and stateless commands in
\* any order.  main schedules no job (the run_daily call is commented out),
\* so send_daily_digest runs in no behaviour of the application.
\* ------------------------------------------------------------------------
AllTexts == {T_Bob, T_Date}

\* context.args of /find_contact: none, or the one word "Bob"
AllArgs == { << >>, <<T_Bob>> }

\* the updates: messages of the dialogs and stateless commands
NextCommands ==
    \E u \in Users :
       \/ question_start(u)
       \/ answer_start(u)
       \/ add_contact_start(u)
       \/ add_event_start(u)
       \/ add_digest_start(u)
       \/ cancel(u)
       \/ \E t \in AllTexts :
             \/ question_received(u, t)
             \/ answer_received(u, t)
             \/ add_contact_name(u, t)
             \/ add_contact_info(u, t)
             \/ add_event_name(u, t)
             \/ add_event_date(u, t)
             \/ add_event_description(u, t)
             \/ add_digest_received(u, t)
             \/ unhandled(u, Text(t))
       \/ start(u)
       \/ help_command(u)
       \/ show_contacts(u)
       \/ \E args \in AllArgs : find_contact(u, args)
       \/ show_events(u)
       \/ show_digest(u)

\* After start-up with a database file that earlier runs have filled with
\* the contact "Bob", the event "Bob" of 01.01.2030 09:00 and the digest
\* "Bob": init_db creates only the tables that are missing; conversations and
\* user_data are kept in memory and start empty.  The run processes
\* MaxStoredUpdates updates.
InitStored ==
    /\ conversations = [u \in Users |-> [c \in Convs |-> END]]
    /\ user_data = [u \in Users |-> EmptyData]
    /\ company_info = << >>
    /\ contacts = add_contact(<< >>, T_Bob, DASH)
    /\ events = add_event(<< >>, T_Bob, strptime(T_Date), << >>)
    /\ digests = add_digest(<< >>, T_Bob, CURRENT_TIMESTAMP(Clock[1]))
    /\ last = NoUpdate
    /\ collected = [u \in Users |-> EmptyData]
    /\ calls = << >>
    /\ n_updates = MaxUpdates - MaxStoredUpdates
    /\ clock = 1
    /\ message = NONE
    /\ result = << >>
    /\ listed = << >>
    /\ marked = {}
    /\ dialog = NoDialog

SpecCommands == InitStored /\ [][NextCommands]_vars


\* ------------------------------------------------------------------------
\* Specification of the digests table: digests are added and read back
\* ------------------------------------------------------------------------
\* limit arguments of get_recent_digests: send_daily_digest passes 1,
\* show_digest passes 5
Limits == {1, 2, 5}

\* Database.get_recent_digests(limit) called on the Store
call_get_recent_digests(limit) ==
    /\ \E ok \in BOOLEAN :
          /\ result' = IF ok THEN get_recent_digests(digests, limit) ELSE << >>
          /\ last' = Handled(NoName, "Database.get_recent_digests", NoName,
                             NONE, NoName, <<"get_recent_digests", limit>>, ok)
    /\ UNCHANGED <<conversations, user_data, company_info, contacts, events,
                   digests, collected, calls, n_updates, dialog, clock, message,
                   listed, marked>>

NextDigests ==
    \/ \E content \in DigestTexts : call_add_digest(content)
    \/ \E limit \in Limits : call_get_recent_digests(limit)
    \/ tick

SpecDigests == Init /\ [][NextDigests]_vars


\* ------------------------------------------------------------------------
\* Specification of the writes: the five write operations of Database are
\* called in any order, and any call may fail with sqlite3.Error
\* ------------------------------------------------------------------------
NextWrites ==
    \/ call_add_company_info(T_Bob, DASH)
    \/ call_add_contact(T_Bob, DASH)
    \/ call_add_digest(T_Bob)
    \/ \E ev \in NotifyEvents :
          \/ call_add_event(ev[1], ev[2])
          \/ call_mark_event_notified(ev[1], ev[2])

SpecWrites == Init /\ [][NextWrites]_vars


\* ------------------------------------------------------------------------
\* Properties
\* ------------------------------------------------------------------------
\* C1: for every user at most one dialog flow is active at any time (an entry
\* command received while another flow is active replaces that flow).
C1_OneFlowActive ==
    \A u \in DOMAIN conversations :
        Cardinality({c \in Convs : conversations[u][c] # END}) <= 1

\* C2: whenever the final step of Add Contact, Add Event or Add Digest has
\* handled its text, it has invoked the Store write of its flow with the values
\* the user entered in the earlier steps of that flow.
C2_FinalStepWrites ==
    /\ last.handler = "add_contact_info" =>
          last.call = <<"add_contact", collected[last.user].contact_name,
                        last.text>>
    /\ last.handler = "add_event_description" =>
          last.call = <<"add_event", collected[last.user].event_name,
                        collected[last.user].event_date,
                        IF last.text = DASH THEN << >> ELSE last.text>>
    /\ last.handler = "add_digest_received" =>
          last.call = <<"add_digest", last.text>>

\* C3: after the final step of a flow has handled its message, the dialog it
\* belongs to is over (its conversation is idle), whether the Store write
\* succeeded, failed or was not attempted; it is never left in the final state.
C3_FinalStepEndsFlow ==
    last.handler \in {"add_contact_info", "add_event_description",
                      "add_digest_received"}
    => conversations[last.user][last.conv] = END

\* C4: after cancel has been handled, no flow is active for that user and no
\* Store write was made.
C4_CancelIdle ==
    last.handler = "cancel" =>
        /\ \A c \in Convs : conversations[last.user][c] = END
        /\ last.call = NONE

\* C5: after cancel has been handled, the user's scratch data (user_data) is
\* empty.
C5_CancelEmptiesScratch ==
    last.handler = "cancel" => user_data[last.user] = EmptyData

\* C6: when the date step of Add Event handles a text that strptime cannot
\* parse, the conversation stays in the date state, user_data (the event name
\* included) and all four tables are unchanged; when the text parses, the
\* conversation moves to the description state holding the parsed date.
C6_DateStepRetries ==
    [][ (n_updates' # n_updates /\ last'.handler = "add_event_date") =>
          LET u == last'.user
              t == last'.text
          IN  /\ conversations[u]["event_conv"] = ADDING_EVENT_DATE
              /\ IF strptime(t) = NONE
                 THEN /\ conversations'[u]["event_conv"] = ADDING_EVENT_DATE
                      /\ user_data' = user_data
                      /\ company_info' = company_info
                      /\ contacts' = contacts
                      /\ events' = events
                      /\ digests' = digests
                 ELSE /\ conversations'[u]["event_conv"]
                            = ADDING_EVENT_DESCRIPTION
                      /\ user_data'[u].event_date = strptime(t)
                      /\ user_data'[u].event_name = user_data[u].event_name
      ]_vars

\* C7: a text message handled by a conversation leaves that conversation in
\* the state it was in only in the date state of Add Event; from every other
\* state it moves the conversation to the next state of its flow or ends it.
C7_OnlyDateStateRetries ==
    [][ (n_updates' # n_updates /\ last'.text # NONE /\ last'.conv # NoName) =>
          LET u == last'.user
              c == last'.conv
              old == conversations[u][c]
              new == conversations'[u][c]
              following ==
                  IF c = "contact_conv" /\ old = ADDING_CONTACT_NAME
                  THEN ADDING_CONTACT_INFO
                  ELSE IF c = "event_conv" /\ old = ADDING_EVENT_NAME
                  THEN ADDING_EVENT_DATE
                  ELSE IF c = "event_conv" /\ old = ADDING_EVENT_DATE
                  THEN ADDING_EVENT_DESCRIPTION
                  ELSE END
          IN  /\ old # END
              /\ new = old => (c = "event_conv" /\ old = ADDING_EVENT_DATE)
              /\ new # old => new \in {following, END}
      ]_vars

\* C8: when Add Q&A handles a text that lacks the word "вопрос" or the word
\* "ответ", has no "ответ:" to split at, or gives an empty question or an empty
\* answer after trimming, then company_info is unchanged, no Store call is
\* made and the Add Q&A conversation is over.
C8_RejectedInputEnds ==
    [][ (n_updates' # n_updates /\ last'.handler = "answer_received") =>
          LET u == last'.user
              t == last'.text
              parts == re_split_otvet(t)
              rejected ==
                  \/ ~Contains(t, VOPROS)
                  \/ ~Contains(t, OTVET)
                  \/ Len(parts) # 2
                  \/ strip(re_sub_vopros(parts[1])) = << >>
                  \/ strip(parts[2]) = << >>
          IN  rejected =>
                  /\ company_info' = company_info
                  /\ last'.call = NONE
                  /\ conversations'[u]["answer_conv"] = END
      ]_vars

\* C9: for a text <prefix> <question label + separator> <Q> <answer label +
\* separator> <A> with Q and A not blank, Add Q&A calls the Store upsert with
\* the pair (trim(Q), trim(A)); "Вопрос: What is X? Ответ: It is Y." gives
\* ("What is X?", "It is Y.").
C9_ParsedPair ==
    last.handler = "answer_received" =>
        /\ \A p \in Prefixes, ql \in QLabelsSep, q \in QParts,
              al \in ALabelsSep, a \in AParts :
              (/\ last.text = p \o ql \o q \o al \o a
               /\ strip(q) # << >>
               /\ strip(a) # << >>)
              => last.call = <<"add_company_info", strip(q), strip(a)>>
        /\ last.text = T_Example =>
              last.call = <<"add_company_info",
                            <<87, 104, 97, 116, 32, 105, 115, 32, 88, 63>>,
                            <<73, 116, 32, 105, 115, 32, 89, 46>>>>

\* C10: company_info holds at most one row per question up to letter case, and
\* a lookup of Q gives the answer of the latest successful add_company_info
\* whose question equals Q up to letter case, None when there was none.
C10_UpsertLookup ==
    LET same(a, b) ==
            /\ Len(a) = Len(b)
            /\ \A k \in 1..Len(a) : tolower(a[k]) = tolower(b[k])
        asked == StoreQuestions \cup {calls[i][1] : i \in 1..Len(calls)}
    IN  /\ \A i, j \in 1..Len(company_info) :
              same(company_info[i].question, company_info[j].question) => i = j
        /\ \A q \in asked :
              LET hits == {i \in 1..Len(calls) : same(calls[i][1], q)}
              IN  get_company_info(company_info, q) =
                     IF hits = {} THEN NONE
                     ELSE calls[CHOOSE h \in hits : \A g \in hits : g <= h][2]

\* C11: every event that a run of send_daily_digest has listed in its message
\* has its notified flag set from then on.
C11_ListedEventsNotified ==
    \A r \in 1..Len(listed) :
        \A k \in 1..Len(listed[r]) : events[listed[r][k]].notified

\* C12: no event is listed in the messages of two different runs of
\* send_daily_digest.
C12_ListedAtMostOnce ==
    \A r1, r2 \in 1..Len(listed) :
        r1 # r2 =>
            \A k1 \in 1..Len(listed[r1]), k2 \in 1..Len(listed[r2]) :
                listed[r1][k1] # listed[r2][k2]

\* C13: in every reachable state of the events table, get_upcoming_events,
\* with or without a number of days and at any time, returns no row whose
\* notified flag is set and no row that a successful mark_event_notified call
\* matched by name and date; the same holds of the rows the last query
\* returned.
C13_NotifiedNeverDue ==
    /\ \A c \in 1..Len(Clock), days \in {NoDays, 0, 1, 2} :
          LET rows == get_upcoming_events(events, Clock[c], days)
          IN  \A k \in 1..Len(rows) :
                  /\ ~events[rows[k]].notified
                  /\ rows[k] \notin marked
    /\ \A i \in marked : events[i].notified
    /\ last.handler = "Database.get_upcoming_events" =>
          \A k \in 1..Len(result) :
              /\ ~events[result[k]].notified
              /\ result[k] \notin marked

\* C13 witness: a query that succeeded returned an event while another event
\* of the table, not yet past, was left out because it had been marked.
C13_MarkedLeftOutWitness ==
    /\ last.handler = "Database.get_upcoming_events"
    /\ last.ok
    /\ result # << >>
    /\ \E i \in marked :
          /\ text_le(isoformat(Clock[clock]), events[i].event_date)
          /\ \A k \in 1..Len(result) : result[k] # i

\* C14: a run of send_daily_digest whose queries succeed composes the header,
\* then the content of the digest added last (the placeholder when there is
\* no digest), then, when some event has notified = false and a date from now
\* to now + 1 day, the events header and one line per such event, in ascending
\* order of date.
C14_DailyMessage ==
    [][ (listed' # listed /\ last'.ok) =>
          LET now == Clock[clock]
              pad(dt) == IF Len(dt) = 5 THEN dt \o <<0, 0>> ELSE dt
              dt_le(a, b) ==
                  \E k \in 1..8 :
                      /\ \A j \in 1..(k - 1) : pad(a)[j] = pad(b)[j]
                      /\ k <= 7 => pad(a)[k] < pad(b)[k]
              date(i) == fromisoformat(events[i].event_date)
              due == {i \in 1..Len(events) :
                         /\ ~events[i].notified
                         /\ dt_le(now, date(i))
                         /\ dt_le(date(i), plus_one_day(now))}
              rows == listed'[Len(listed')]
              digest_part == IF digests = << >> THEN NO_DIGEST
                             ELSE digests[Len(digests)].content
          IN  /\ {rows[k] : k \in 1..Len(rows)} = due
              /\ Len(rows) = Cardinality(due)
              /\ \A k \in 1..(Len(rows) - 1) :
                    dt_le(date(rows[k]), date(rows[k + 1]))
              /\ message' = DIGEST_HEADER \o digest_part
                            \o (IF due = {} THEN << >>
                                ELSE EVENTS_HEADER \o event_lines(events, rows))
      ]_vars
\* C15: when /add_event, a name N, a date text D that strptime accepts and a
\* description text T have been handled one after the other for one user, the
\* last step calls add_event once with N, the parsed D and T ("" when T is
\* "-"); when the write succeeds the events table has exactly one more row,
\* holding that name, date and description with notified = false, and when
\* sqlite3 fails the table is as it was.
C15_AddEventDialog ==
    [][ (/\ n_updates' # n_updates
         /\ last'.handler = "add_event_description"
         /\ dialog.n = 3
         /\ dialog.user = last'.user) =>
          LET N == dialog.name
              D == strptime(dialog.date)
              T == last'.text
              description == IF T = DASH THEN << >> ELSE T
          IN  /\ D # NONE
              /\ last'.call = <<"add_event", N, D, description>>
              /\ last'.ok =>
                    events' = Append(events,
                                     [name |-> N, event_date |-> isoformat(D),
                                      description |-> description,
                                      notified |-> FALSE])
              /\ ~last'.ok => events' = events
      ]_vars

\* C16: when the Store write of the last step of Add Contact or Add Event
\* failed, the conversation is over and the user's user_data is empty.
C16_FailedWriteClearsScratch ==
    (/\ last.handler \in {"add_contact_info", "add_event_description"}
     /\ last.call # NONE
     /\ ~last.ok)
    => /\ conversations[last.user][last.conv] = END
       /\ user_data[last.user] = EmptyData
\* C18: a text message of a user none of whose conversations is active is
\* taken by no handler: the conversations, user_data and the four tables are
\* unchanged, no Database call is made and no reply is sent.
C18_IdleTextIgnored ==
    [][ (/\ n_updates' # n_updates
         /\ last'.text # NONE
         /\ \A c \in Convs : conversations[last'.user][c] = END) =>
          /\ UNCHANGED <<conversations, user_data, company_info, contacts,
                         events, digests>>
          /\ last'.handler = NoName
          /\ last'.reply = NoName
          /\ last'.call = NONE
      ]_vars

\* C18 witness: a text arrived after a contact had been stored and the flow
\* had ended; nothing handled it and the contact is still the only row.
C18_IdleTextWitness ==
    /\ last.text # NONE
    /\ last.handler = NoName
    /\ last.reply = NoName
    /\ \A c \in Convs : conversations[last.user][c] = END
    /\ Len(contacts) = 1
\* C17: handling an update of one user leaves the conversations and the
\* user_data of every other user as they were, and a row added to contacts or
\* events by the last step of a dialog holds only texts that the user who
\* sent that last message has sent (the date being one of that user's texts
\* parsed, the description possibly empty).
C17_UsersIndependent ==
    [][ n_updates' # n_updates =>
          LET a == last'.user
              dates == {isoformat(strptime(t)) :
                           t \in {x \in UserTexts(a) : strptime(x) # NONE}}
          IN  /\ \A b \in DOMAIN conversations \ {a} :
                    /\ conversations'[b] = conversations[b]
                    /\ user_data'[b] = user_data[b]
              /\ contacts' # contacts =>
                    LET row == contacts'[Len(contacts')]
                    IN  /\ row.name \in UserTexts(a)
                        /\ row.info \in UserTexts(a)
              /\ events' # events =>
                    LET row == events'[Len(events')]
                    IN  /\ row.name \in UserTexts(a)
                        /\ row.event_date \in dates
                        /\ row.description \in UserTexts(a) \cup {<< >>}
      ]_vars

\* C17 witness: user u2 went through Add Contact from start to end, storing
\* "Ann", while user u1 was waiting in the same dialog with the name "Bob"
\* entered; u1's conversation and user_data are still in place.
C17_InterleavedWitness ==
    /\ last.user = "u2"
    /\ last.handler = "add_contact_info"
    /\ last.ok
    /\ contacts = <<[name |-> T_Ann, info |-> T_Date2]>>
    /\ conversations["u1"]["contact_conv"] = ADDING_CONTACT_INFO
    /\ user_data["u1"].contact_name = T_Bob
    /\ user_data["u2"] = EmptyData
\* C19: a search_contact(s) call that succeeded returned the first row, in
\* insertion order, of the contacts whose name contains the text s, and None
\* when no name contains s.
C19_FirstContaining ==
    (last.handler = "Database.search_contact" /\ last.ok) =>
        LET s == last.call[2]
            contains(name) ==
                \E i \in 0..(Len(name) - Len(s)) :
                    SubSeq(name, i + 1, i + Len(s)) = s
            hits == {i \in 1..Len(contacts) : contains(contacts[i].name)}
        IN  IF hits = {} THEN result = << >>
            ELSE result = <<CHOOSE h \in hits : \A g \in hits : h <= g>>

\* C20: the tables only grow.  No step removes a contact, an event or a
\* digest, or changes the content of a digest that exists; and every
\* add_contact that succeeds appends a row, also when the table already holds
\* a contact of that name.
C20_StoreOnlyGrows ==
    [][ /\ Len(contacts') >= Len(contacts)
        /\ \A i \in 1..Len(contacts) : contacts'[i] = contacts[i]
        /\ Len(events') >= Len(events)
        /\ \A i \in 1..Len(events) :
              /\ events'[i].name = events[i].name
              /\ events'[i].event_date = events[i].event_date
              /\ events'[i].description = events[i].description
        /\ Len(digests') >= Len(digests)
        /\ \A i \in 1..Len(digests) : digests'[i] = digests[i]
        /\ (/\ n_updates' = n_updates + 1
            /\ last'.handler = "add_contact_info"
            /\ last'.ok) =>
              contacts' = Append(contacts, [name |-> last'.call[2],
                                            info |-> last'.call[3]])
      ]_vars

\* a contact was added under the name of a contact the table already held
C20_SameNameWitness ==
    /\ Len(contacts) = 2
    /\ contacts[1].name = contacts[2].name
    /\ last.handler = "add_contact_info"
    /\ last.ok

\* C21: a get_recent_digests(limit) call that succeeded returned the
\* min(limit, number of digests) digests added last, the one added last
\* first, whatever the created_at values of the digests are.
C21_MostRecentFirst ==
    (last.handler = "Database.get_recent_digests" /\ last.ok) =>
        LET limit == last.call[2]
            n == Len(digests)
            m == IF limit <= n THEN limit ELSE n
        IN  result = [k \in 1..m |-> n + 1 - k]

\* C22: a write operation of Database that fails returns False and leaves
\* company_info, contacts, events and digests as they were before the call.
C22_FailedWriteNoEffect ==
    [][ (/\ last'.handler \in {"Database.add_company_info",
                                "Database.add_contact", "Database.add_event",
                                "Database.add_digest",
                                "Database.mark_event_notified"}
         /\ ~last'.ok) =>
            UNCHANGED <<company_info, contacts, events, digests>>
      ]_vars

\* a mark_event_notified call failed on an event that is in the table and not
\* notified, with rows in the three other tables
C22_FailedMarkWitness ==
    /\ last.handler = "Database.mark_event_notified"
    /\ ~last.ok
    /\ \E i \in 1..Len(events) :
          /\ events[i].name = last.call[2]
          /\ events[i].event_date = isoformat(last.call[3])
          /\ ~events[i].notified
    /\ company_info # << >>
    /\ contacts # << >>
    /\ digests # << >>

\* C23: when the read of a handler (get_company_info, get_contacts,
\* search_contact, get_upcoming_events, get_recent_digests) failed with
\* sqlite3.Error, the reply is not the one the handler sends for a miss
\* (answer unknown, no contacts, contact not found, no events, no digests).
C23_FailedReadReported ==
    (/\ last.handler \in {"question_received", "show_contacts", "find_contact",
                          "show_events", "show_digest"}
     /\ last.reply # "find_contact_usage"
     /\ ~last.ok) =>
        last.reply \notin {"unknown", "no_contacts", "contact_not_found",
                           "no_events", "no_digests"}

\* C24: the state of event_conv changes only from END to ADDING_EVENT_NAME
\* (by /add_event), from there to ADDING_EVENT_DATE (by a text), from there to
\* ADDING_EVENT_DESCRIPTION (by a text that strptime accepts) and from there
\* to END (by a text); the state of contact_conv only from END to
\* ADDING_CONTACT_NAME, to ADDING_CONTACT_INFO and to END; /cancel alone
\* leaves a conversation from any state, to END.  Every text that a handler
\* of the two conversations takes moves its conversation one state forward,
\* except a date text that strptime rejects, which leaves the state as it
\* is.  add_event is called only from ADDING_EVENT_DESCRIPTION and with the
\* date that add_event_date parsed.
C24_StatesInOrder ==
    [][ \A u \in Users :
          LET e  == conversations[u].event_conv
              e2 == conversations'[u].event_conv
              c  == conversations[u].contact_conv
              c2 == conversations'[u].contact_conv
              h  == last'.handler
              by(name) == /\ n_updates' = n_updates + 1
                          /\ last'.user = u
                          /\ h = name
              parsed == strptime(last'.text)
          IN  /\ e2 # e =>
                    \/ by("add_event_start")
                         /\ e = END /\ e2 = ADDING_EVENT_NAME
                    \/ by("add_event_name")
                         /\ e = ADDING_EVENT_NAME /\ e2 = ADDING_EVENT_DATE
                    \/ by("add_event_date")
                         /\ e = ADDING_EVENT_DATE
                         /\ e2 = ADDING_EVENT_DESCRIPTION
                         /\ parsed # NONE
                         /\ user_data'[u].event_date = parsed
                    \/ by("add_event_description")
                         /\ e = ADDING_EVENT_DESCRIPTION /\ e2 = END
                    \/ by("cancel") /\ e2 = END
              /\ c2 # c =>
                    \/ by("add_contact_start")
                         /\ c = END /\ c2 = ADDING_CONTACT_NAME
                    \/ by("add_contact_name")
                         /\ c = ADDING_CONTACT_NAME /\ c2 = ADDING_CONTACT_INFO
                    \/ by("add_contact_info")
                         /\ c = ADDING_CONTACT_INFO /\ c2 = END
                    \/ by("cancel") /\ c2 = END
              /\ by("add_event_name") => e2 = ADDING_EVENT_DATE
              /\ by("add_event_date") =>
                    /\ e = ADDING_EVENT_DATE
                    /\ e2 = IF parsed # NONE THEN ADDING_EVENT_DESCRIPTION
                            ELSE ADDING_EVENT_DATE
              /\ by("add_event_description") =>
                    /\ e = ADDING_EVENT_DESCRIPTION /\ e2 = END
                    /\ events' # events =>
                          /\ user_data[u].event_date # NONE
                          /\ user_data[u].event_date = collected[u].event_date
                          /\ events'[Len(events')].event_date =
                                isoformat(collected[u].event_date)
              /\ by("add_contact_name") => c2 = ADDING_CONTACT_INFO
              /\ by("add_contact_info") => c = ADDING_CONTACT_INFO /\ c2 = END
              /\ events' # events => by("add_event_description")
      ]_vars

\* C25: handling /start, /help, /contacts, /find_contact, /events or /digest
\* leaves the four tables, the conversation states of the user and the
\* user_data of the user as they were, whatever conversation is open, so the
\* next text of the user goes to the handler it would have gone to.
C25_StatelessReadOnly ==
    [][ (/\ n_updates' = n_updates + 1
         /\ last'.handler \in {"start", "help_command", "show_contacts",
                               "find_contact", "show_events", "show_digest"}) =>
            /\ UNCHANGED <<company_info, contacts, events, digests>>
            /\ UNCHANGED <<conversations, user_data>>
            /\ \A u \in Users, t \in AllTexts :
                  selected(u, Text(t))' = selected(u, Text(t))
      ]_vars

\* /contacts was handled for a user who has given the name of a contact and
\* is asked for the info; the read succeeded and found rows
C25_MidFlowWitness ==
    /\ last.handler = "show_contacts"
    /\ last.ok
    /\ contacts # << >>
    /\ conversations[last.user].contact_conv = ADDING_CONTACT_INFO
    /\ user_data[last.user].contact_name # NONE

====
